---- MODULE Spec2Model ----
(***************************************************************************)
(* Broadlink -> Tuya IR codec of hvac-manager                              *)
(* (internal/database/tuya_codec.go): the LZ-style compressor, its token   *)
(* encoding, the reference decompressor, and the Broadlink duration        *)
(* parser.  Byte sequences are TLA+ sequences of 0..255; Go's 0-based      *)
(* index k is position k+1 of the sequence.                                *)
(***************************************************************************)
EXTENDS Integers, Sequences, FiniteSets, TLC

VARIABLES
    data,        \* compressTuya: the input []byte
    pos,         \* compressTuya: cursor
    blockStart,  \* compressTuya: start of the pending literal run
    w,           \* the bytes.Buffer `out`, the emit calls made, a panic flag
    best,        \* compressTuya: bestLength, bestDistance of this iteration
    pc,          \* "loop" | "done" | "panic" | "probed" | "idle"
    probe,       \* a direct call findBestMatch(data, probe.pos) and its result
    dH,          \* decompressor that tests the header's high bit
    dF,          \* decompressor that tests the header's 3-bit length field
    decoded,     \* ConvertBroadlinkToTuya: the base64-decoded payload bytes
    hexString,   \* parseBroadlinkDurations: the input, as hex digits 0..15
    i,           \* parseBroadlinkDurations: cursor into hexString
    durations,   \* parseBroadlinkDurations: values appended so far
    widths,      \* bytes consumed by each appended value (1 or 3)
    ps,          \* "entry" | "run" | "returned" | "idle"
    ret,         \* what parseBroadlinkDurations returned
    conv,        \* what ConvertBroadlinkToTuya returned
    broadlinkCode, \* ConvertBroadlinkToTuya: the argument, as character codes
    durationsArg,  \* convertToMicroseconds: the argument
    microseconds,  \* the []uint16 convertToMicroseconds returned
    rawBytes,      \* the []byte packRawBytes returned
    compressed,    \* the []byte compressTuya returned
    tuyaCode,      \* the string encodeTuyaBase64 returned
    redecoded,     \* base64.StdEncoding.DecodeString(tuyaCode)
    us,            \* "idle" | "call" | "converted" | "packed" | "compressed"
                   \* | "encoded" | "decoded" | "returned" | "panic"
    db,            \* the database: the rows of models and of ir_codes
    loadCall,      \* LoadFromJSON: the arguments of the last call
    loadRet,       \* LoadFromJSON: what the last call returned
    loads,         \* number of LoadFromJSON calls made
    lookupRet,     \* LookupCode / LookupOffCode: the call and what it returned
    dirEntries,    \* LoadFromDirectory: the entries os.ReadDir returned
    dirPos,        \* LoadFromDirectory: the entry the loop is at (from 1)
    dirRet,        \* LoadFromDirectory: what it returned
    ls,            \* "idle" | "ready" | "dirCall" | "dir" | "dirReturned"
    acState,       \* the *state.ACState: Temperature, Mode, FanMode, Power
    setRet,        \* the last ACState setter called and the error it returned
    connected,     \* what mqtt.IsConnected() returns
    trace,         \* the database and MQTT calls of the operation, in order
    sendRet,       \* what SendIRCode returned
    payload,       \* handleCommand: the command received
    schema,        \* PRAGMA user_version and whether the models table exists
    schemaRet,     \* the last InitSchema / Migrate call and its error
    schemaCalls,   \* number of InitSchema / Migrate calls made
    hs             \* "idle" | "ready" | "call" | "sent" | "handled"

compVars  == <<data, pos, blockStart, w, best, pc, probe, dH, dF>>
parseVars == <<decoded, hexString, i, durations, widths, ps, ret, conv>>
pipeVars  == <<broadlinkCode, durationsArg, microseconds, rawBytes, compressed,
               tuyaCode, redecoded, us>>
loadVars  == <<db, loadCall, loadRet, loads, lookupRet, dirEntries, dirPos,
               dirRet, ls>>
appVars   == <<acState, setRet, connected, trace, sendRet, payload, schema,
               schemaRet, schemaCalls, hs>>
vars      == <<data, pos, blockStart, w, best, pc, probe, dH, dF,
               decoded, hexString, i, durations, widths, ps, ret, conv,
               broadlinkCode, durationsArg, microseconds, rawBytes, compressed,
               tuyaCode, redecoded, us,
               db, loadCall, loadRet, loads, lookupRet, dirEntries, dirPos,
               dirRet, ls,
               acState, setRet, connected, trace, sendRet, payload, schema,
               schemaRet, schemaCalls, hs>>

----------------------------------------------------------------------------
(* Bounds of the explored inputs *)

MaxLen == 6
NumSymbols == 3
MaxDeclared == 5
MaxPayload == 5

(* Program constants *)

TuyaWindowSize == 8192
TuyaMaxMatchLength == 265
LiteralChunk == 32

----------------------------------------------------------------------------
(* Integer and slice helpers standing for Go's operators *)

At(s, k) == s[k + 1]
InRange(s, k) == 0 <= k /\ k < Len(s)
Slice(s, from, to) == SubSeq(s, from + 1, to)
Byte(x) == x % 256
Shr(x, n) == x \div (2 ^ n)
Shl(x, n) == x * (2 ^ n)

RECURSIVE BitOr(_, _)
BitOr(a, b) ==
    IF a = 0 THEN b
    ELSE IF b = 0 THEN a
    ELSE (IF a % 2 = 1 \/ b % 2 = 1 THEN 1 ELSE 0) + 2 * BitOr(a \div 2, b \div 2)

Min2(a, b) == IF a < b THEN a ELSE b

----------------------------------------------------------------------------
(* findBestMatch, tuya_codec.go:163-195 *)

(* Variant with a defect: the bytes are not compared *)
loopStopsIgnoringBytes(d, p, comparePos, maxLength, length) ==
    \/ ~(length < maxLength)
    \/ ~InRange(d, p + length) \/ ~InRange(d, comparePos + length)

(* The compare loop of lines 183-185 stops at the first length that has
   reached maxLength, or whose bytes differ, or (Go panics there) whose
   index falls outside the input. *)
loopStops(d, p, comparePos, maxLength, length) ==
    \/ ~(length < maxLength)
    \/ ~InRange(d, p + length) \/ ~InRange(d, comparePos + length)
    \/ At(d, p + length) # At(d, comparePos + length)

compareLoop(d, p, comparePos, maxLength) ==
    IF maxLength <= 0 THEN 0
    ELSE CHOOSE length \in 0 .. maxLength :
            /\ loopStops(d, p, comparePos, maxLength, length)
            /\ \A shorter \in 0 .. length - 1 :
                  ~loopStops(d, p, comparePos, maxLength, shorter)

(* Variant with a defect: no cap at TuyaMaxMatchLength *)
maxLengthAtUncapped(d, p) == Len(d) - p

(* lines 177-180: the cap on the match length *)
maxLengthAt(d, p) ==
    IF p + TuyaMaxMatchLength > Len(d) THEN Len(d) - p ELSE TuyaMaxMatchLength

(* lines 168-171 *)
windowStartAt(p) ==
    IF p - TuyaWindowSize < 0 THEN 0 ELSE p - TuyaWindowSize

NoMatch == [length |-> 0, distance |-> 0, oob |-> FALSE]

(* Variant with a defect: >= in place of >, the farthest of equals wins *)
keepBestLast(cur, cand) ==
    IF cand.oob \/ cur.oob THEN [cur EXCEPT !.oob = TRUE]
    ELSE IF cand.length >= cur.length /\ cand.length > 0 THEN cand ELSE cur

(* lines 188-191: a candidate replaces the best only when strictly longer *)
keepBest(cur, cand) ==
    IF cand.oob \/ cur.oob THEN [cur EXCEPT !.oob = TRUE]
    ELSE IF cand.length > cur.length THEN cand ELSE cur

(* one iteration of the loop of line 174, for one distance *)
candidate(d, p, distance) ==
    LET maxLength == maxLengthAt(d, p)
        length    == compareLoop(d, p, p - distance, maxLength)
    IN  IF length < maxLength
           /\ (~InRange(d, p + length) \/ ~InRange(d, p - distance + length))
        THEN [length |-> 0, distance |-> 0, oob |-> TRUE]
        ELSE [length |-> length, distance |-> distance, oob |-> FALSE]

(* the loop of line 174 over distance = lo .. hi, in increasing order; keepBest
   keeps the earlier of two equally long candidates, so folding the two halves
   in order gives what the loop gives *)
RECURSIVE searchWindow(_, _, _, _)
searchWindow(d, p, lo, hi) ==
    IF lo > hi THEN NoMatch
    ELSE IF lo = hi THEN keepBest(NoMatch, candidate(d, p, lo))
    ELSE LET mid == (lo + hi) \div 2
         IN  keepBest(searchWindow(d, p, lo, mid), searchWindow(d, p, mid + 1, hi))

findBestMatch(d, p) == searchWindow(d, p, 1, p - windowStartAt(p))

----------------------------------------------------------------------------
(* Token emission, tuya_codec.go:198-265.  The writer is the buffer `out`
   together with the list of emit calls made so far and whether one of them
   panicked. *)

NewWriter == [out |-> <<>>, calls |-> <<>>, panic |-> FALSE]

Called(wr, op, length, distance) ==
    Append(wr.calls, [op |-> op, length |-> length, distance |-> distance,
                      first |-> Len(wr.out)])

(* Variant with a defect: the header holds the length, not the length - 1 *)
emitLiteralBlockFullLength(wr, chunk) ==
    LET length == Len(chunk)
        logged == [wr EXCEPT !.calls = Called(wr, "lit", Len(chunk), 0)]
    IN  IF length <= 0 \/ length >= Shl(1, 5)
        THEN [logged EXCEPT !.panic = TRUE]
        ELSE [logged EXCEPT !.out = (wr.out \o <<Byte(length)>>) \o chunk]

(* emitLiteralBlock, lines 211-218 *)
emitLiteralBlock(wr, chunk) ==
    LET length == Len(chunk) - 1
        logged == [wr EXCEPT !.calls = Called(wr, "lit", Len(chunk), 0)]
    IN  IF length < 0 \/ length >= Shl(1, 5)
        THEN [logged EXCEPT !.panic = TRUE]
        ELSE [logged EXCEPT !.out = (wr.out \o <<Byte(length)>>) \o chunk]

RECURSIVE literalLoop(_, _, _)

(* Variant with a defect: a block is emitted before the length is tested *)
literalLoopAtLeastOnce(wr, d, k) ==
    IF (k < Len(d) \/ k = 0) /\ ~wr.panic
    THEN LET end == IF k + LiteralChunk > Len(d) THEN Len(d) ELSE k + LiteralChunk
         IN  literalLoop(emitLiteralBlock(wr, Slice(d, k, end)), d, k + LiteralChunk)
    ELSE wr

(* emitLiteralBlocks, lines 198-206 *)
literalLoop(wr, d, k) ==
    IF k < Len(d) /\ ~wr.panic
    THEN LET end == IF k + LiteralChunk > Len(d) THEN Len(d) ELSE k + LiteralChunk
         IN  literalLoop(emitLiteralBlock(wr, Slice(d, k, end)), d, k + LiteralChunk)
    ELSE wr

emitLiteralBlocks(wr, d) == literalLoop(wr, d, 0)

(* Variant with a defect: the length field not shifted into bits 5-7 *)
distanceBlockNoShift(length, distance) ==
    IF length >= 7
    THEN << Byte(BitOr(7, Shr(distance, 8))),
            Byte(distance % 256), Byte(length - 7) >>
    ELSE << Byte(BitOr(length, Shr(distance, 8))),
            Byte(distance % 256) >>

(* the token bytes of emitDistanceBlock, lines 243-262, for the stored
   length = true length - 2 and the stored distance = true distance - 1 *)

distanceBlock(length, distance) ==
    IF length >= 7
    THEN << Byte(BitOr(Shl(7, 5), Shr(distance, 8))),
            Byte(distance % 256), Byte(length - 7) >>
    ELSE << Byte(BitOr(Shl(length, 5), Shr(distance, 8))),
            Byte(distance % 256) >>

(* emitDistanceBlock, lines 229-265 *)
emitDistanceBlock(wr, length0, distance0) ==
    LET distance == distance0 - 1
        length   == length0 - 2
        logged   == [wr EXCEPT !.calls = Called(wr, "dist", length0, distance0)]
    IN  IF distance < 0 \/ distance >= TuyaWindowSize
        THEN [logged EXCEPT !.panic = TRUE]
        ELSE IF length <= 0
        THEN [logged EXCEPT !.panic = TRUE]
        ELSE IF length >= 7 /\ length >= Shl(1, 8)
        THEN [logged EXCEPT !.panic = TRUE]
        ELSE [logged EXCEPT !.out = wr.out \o distanceBlock(length, distance)]

----------------------------------------------------------------------------
(* compressTuya, tuya_codec.go:124-154, one action per loop iteration *)

MinMatch == 3

(* Variant with a defect: a match of exactly 3 bytes is not taken *)
takesMatchAboveMin(bestLength) == bestLength > MinMatch

(* line 135: bestLength >= 3 *)
takesMatch(bestLength) == bestLength >= MinMatch

(* lines 130-148: one iteration of the loop: the search at the cursor
   (line 132; an index panic inside findBestMatch ends the call), then a
   match of at least 3 bytes (lines 135-143) or one more literal byte
   (lines 144-147) *)
Step ==
    /\ pc = "loop"
    /\ pos < Len(data)
    /\ \E m \in {findBestMatch(data, pos)} :
       LET w1 == emitLiteralBlocks(w, Slice(data, blockStart, pos))
           w2 == IF w1.panic THEN w1
                 ELSE emitDistanceBlock(w1, m.length, m.distance)
       IN  /\ best' = m
           /\ IF m.oob
              THEN pc' = "panic" /\ UNCHANGED <<pos, blockStart, w>>
              ELSE IF takesMatch(m.length)
              THEN /\ w' = w2
                   /\ IF w2.panic
                      THEN pc' = "panic" /\ UNCHANGED <<pos, blockStart>>
                      ELSE /\ pos' = pos + m.length
                           /\ blockStart' = pos + m.length
                           /\ pc' = "loop"
              ELSE /\ pos' = pos + 1
                   /\ pc' = "loop"
                   /\ UNCHANGED <<blockStart, w>>
    /\ UNCHANGED <<data, probe, dH, dF>>
    /\ UNCHANGED <<parseVars, pipeVars, loadVars, appVars>>

(* lines 150-153 *)
Finish ==
    /\ pc = "loop"
    /\ pos >= Len(data)
    /\ LET w1 == emitLiteralBlocks(w, Slice(data, blockStart, pos))
       IN  /\ w' = w1
           /\ pc' = IF w1.panic THEN "panic" ELSE "done"
    /\ UNCHANGED <<data, pos, blockStart, best, probe, dH, dF>>
    /\ UNCHANGED <<parseVars, pipeVars, loadVars, appVars>>

(* a direct call of findBestMatch(data, p) *)
ProbePositions(d) ==
    IF Len(d) <= MaxLen + 2 THEN 0 .. Len(d) - 1
    ELSE {p \in {2, 301, 599, 8193, 8196} : p < Len(d)}

Probe ==
    /\ pc = "loop"
    /\ pos = 0
    /\ \E p \in ProbePositions(data) :
          probe' = [pos |-> p, result |-> findBestMatch(data, p)]
    /\ pc' = "probed"
    /\ UNCHANGED <<data, pos, blockStart, w, best, dH, dF>>
    /\ UNCHANGED <<parseVars, pipeVars, loadVars, appVars>>

----------------------------------------------------------------------------
(* Decompressor.  Section 4.5 of the design: tokens are read in order; a
   literal block copies (low 5 bits)+1 bytes; a match token carries the
   length field in bits 5-7, a 13-bit distance-1, and an extra length byte
   when the length field is 7, and is copied byte by byte from the output
   produced so far.  "highbit" classifies a header by its high bit, as
   section 4.5 words it; "field" classifies it by the 3-bit length field. *)

IsLiteralHeader(mode, header) ==
    IF mode = "highbit" THEN header < 128 ELSE Shr(header, 5) = 0

(* n bytes copied one at a time from offset start of the growing output:
   the j-th byte copied is the byte j positions after start, which, once the
   copy runs into its own output, is again a byte of the last
   Len(output) - start bytes of what was there before *)
copyMatch(output, start, n) ==
    LET distance == Len(output) - start
    IN  output \o [j \in 1 .. n |-> At(output, start + ((j - 1) % distance))]

NewDecoder == [p |-> 0, out |-> <<>>, st |-> "run"]

decodeToken(mode, c, s) ==
    IF s.st # "run" THEN s
    ELSE IF s.p >= Len(c) THEN [s EXCEPT !.st = "ok"]
    ELSE
      LET header == At(c, s.p) IN
      IF IsLiteralHeader(mode, header)
      THEN LET n == (header % 32) + 1
           IN  IF s.p + 1 + n > Len(c) THEN [s EXCEPT !.st = "truncated"]
               ELSE [p   |-> s.p + 1 + n,
                     out |-> s.out \o Slice(c, s.p + 1, s.p + 1 + n),
                     st  |-> "run"]
      ELSE LET field == Shr(header, 5) % 8
               size  == IF field = 7 THEN 3 ELSE 2
           IN  IF s.p + size > Len(c) THEN [s EXCEPT !.st = "truncated"]
               ELSE LET distance == (header % 32) * 256 + At(c, s.p + 1) + 1
                        length   == (IF field = 7 THEN 7 + At(c, s.p + 2) ELSE field) + 2
                    IN  IF distance > Len(s.out) THEN [s EXCEPT !.st = "badref"]
                        ELSE [p   |-> s.p + size,
                              out |-> copyMatch(s.out, Len(s.out) - distance, length),
                              st  |-> "run"]

(* one token of the compressed stream read by each decompressor *)
DecodeStep ==
    /\ pc = "done"
    /\ dH.st = "run" \/ dF.st = "run"
    /\ dH' = decodeToken("highbit", w.out, dH)
    /\ dF' = decodeToken("field", w.out, dF)
    /\ UNCHANGED <<data, pos, blockStart, w, best, pc, probe>>
    /\ UNCHANGED <<parseVars, pipeVars, loadVars, appVars>>

----------------------------------------------------------------------------
(* Inputs of the compressor *)

SymbolByte(k) == (k * 144) % 256
Symbols == {SymbolByte(k) : k \in 0 .. NumSymbols - 1}
SmallInputs == UNION {[1 .. n -> Symbols] : n \in 0 .. MaxLen}

(* 300 repetitions of 0x90 0x01 *)
RepeatInput == [k \in 1 .. 600 |-> IF k % 2 = 1 THEN 144 ELSE 1] \o <<>>

(* a filler of n bytes without a repeat of more than 257 bytes: 32 distinct
   bytes, then again and again a copy of the last (at most 257) bytes
   followed by a byte value not used before *)
RECURSIVE Filler(_, _, _)
Filler(s, fresh, n) ==
    IF Len(s) >= n THEN SubSeq(s, 1, n)
    ELSE LET t == Min2(Len(s), 257) IN
         Filler(s \o SubSeq(s, Len(s) - t + 1, Len(s)) \o <<fresh>>, fresh + 1, n)

(* 8200 bytes: the marker A at offsets 0 and 8193 (one byte outside the
   window), the marker B at offsets 4 and 8196 (distance 8192), between them
   the filler, which gives matches of up to 257 bytes *)
WindowInput ==
    <<243, 242, 241, 244, 247, 246, 245>>
        \o Filler([k \in 1 .. 32 |-> k] \o <<>>, 33, 8186)
        \o <<243, 242, 241, 247, 246, 245, 248>>

Inputs == SmallInputs \cup {RepeatInput, WindowInput}

NoProbe == [pos |-> -1, result |-> NoMatch]

NoReturn == [returned |-> FALSE, durations |-> <<>>, err |-> <<>>]
NoResult == [returned |-> FALSE, code |-> <<>>, err |-> <<>>]

NoDecode == [bytes |-> <<>>, err |-> <<>>]

PipeIdle ==
    /\ broadlinkCode = <<>>
    /\ durationsArg = <<>>
    /\ microseconds = <<>>
    /\ rawBytes = <<>>
    /\ compressed = <<>>
    /\ tuyaCode = <<>>
    /\ redecoded = NoDecode
    /\ us = "idle"

EmptyDB == [models |-> <<>>, ir_codes |-> <<>>]
NoCall == [modelID |-> "", file |-> <<>>, fault |-> <<>>]
NoError == [returned |-> FALSE, err |-> <<>>]
NoLookup == [returned |-> FALSE]

(* a float64: a number of tenths, or NaN *)
Float(tenths) == [nan |-> FALSE, tenths |-> tenths]
NaN == [nan |-> TRUE, tenths |-> 0]

(* NewACState, tuya_codec.go:685-693 *)
NewACState ==
    [Temperature |-> Float(220), Mode |-> "off", FanMode |-> "auto", Power |-> FALSE]

NoSet == [fn |-> "", err |-> <<>>]
NoSend == [returned |-> FALSE, err |-> <<>>]
NoPayload == [kind |-> "none"]
NewDatabase == [version |-> 0, models |-> FALSE]

AppIdle ==
    /\ acState = NewACState
    /\ setRet = NoSet
    /\ connected = FALSE
    /\ trace = <<>>
    /\ sendRet = NoSend
    /\ payload = NoPayload
    /\ schema = NewDatabase
    /\ schemaRet = NoSet
    /\ schemaCalls = 0
    /\ hs = "idle"

LoadIdle ==
    /\ db = EmptyDB
    /\ loadCall = NoCall
    /\ loadRet = NoError
    /\ loads = 0
    /\ lookupRet = NoLookup
    /\ dirEntries = <<>>
    /\ dirPos = 0
    /\ dirRet = NoError
    /\ ls = "idle"

ParseIdle ==
    /\ decoded = <<>>
    /\ hexString = <<>>
    /\ i = 0
    /\ durations = <<>>
    /\ widths = <<>>
    /\ ps = "idle"
    /\ ret = NoReturn
    /\ conv = NoResult

Init ==
    /\ data \in Inputs
    /\ pos = 0
    /\ blockStart = 0
    /\ w = NewWriter
    /\ best = NoMatch
    /\ pc = "loop"
    /\ probe = NoProbe
    /\ dH = NewDecoder
    /\ dF = NewDecoder
    /\ ParseIdle
    /\ PipeIdle
    /\ LoadIdle
    /\ AppIdle

Next ==
    \/ Step
    \/ Finish
    \/ DecodeStep
    \/ Probe

Spec == Init /\ [][Next]_vars

----------------------------------------------------------------------------
(* parseBroadlinkDurations, tuya_codec.go:32-78, and the part of
   ConvertBroadlinkToTuya around its call.  A hex string is the sequence of
   its digits. *)

(* fmt.Sprintf("%x", decoded): two digits per byte, high digit first *)
RECURSIVE ToHex(_)
ToHex(bytes) ==
    IF bytes = <<>> THEN <<>>
    ELSE <<Head(bytes) \div 16, Head(bytes) % 16>> \o ToHex(Tail(bytes))

(* parseHexToInt, lines 275-279 *)
RECURSIVE parseHexToInt(_)
parseHexToInt(hexStr) ==
    IF hexStr = <<>> THEN 0
    ELSE 16 * parseHexToInt(SubSeq(hexStr, 1, Len(hexStr) - 1)) + hexStr[Len(hexStr)]

HeaderHexChars == 8

(* lines 37-44: the declared payload length, little-endian *)
declaredLength(h) == parseHexToInt(Slice(h, 6, 8) \o Slice(h, 4, 6))

(* Variant with a defect: one byte more than declared *)
loopBoundOneMore(h) == declaredLength(h) * 2 + HeaderHexChars + 2

(* line 50: the bound of the loop *)
loopBound(h) == declaredLength(h) * 2 + HeaderHexChars

(* Variant with a defect: any value with a leading zero digit is an escape *)
IsEscapeLeadingZero(h, k) == At(h, k) = 0

(* line 58 *)
IsEscape(h, k) == Slice(h, k, k + 2) = <<0, 0>>

(* Variant with a defect: low byte first *)
extendedValueLittleEndian(h, k) ==
    parseHexToInt(Slice(h, k + 4, k + 6) \o Slice(h, k + 2, k + 4))

(* lines 63 and 68: the two bytes after the marker, high byte first *)
extendedValue(h, k) ==
    parseHexToInt(Slice(h, k + 2, k + 4) \o Slice(h, k + 4, k + 6))

Returned(ds, err) == [returned |-> TRUE, durations |-> ds, err |-> err]

ErrTooShort == "invalid Broadlink format: too short (min 8 hex chars)"
ErrTruncated == "truncated extended duration"
ErrParse == "failed to parse Broadlink format"
ErrNoDurations == "no IR durations found in Broadlink code"

(* Variant with a defect: the values read so far returned with the error *)
truncatedReturnPartial(ds) == Returned(ds, <<ErrTruncated>>)

(* line 60 *)
truncatedReturn(ds) == Returned(<<>>, <<ErrTruncated>>)

(* lines 33-35 *)
ParseTooShort ==
    /\ ps = "entry"
    /\ Len(hexString) < HeaderHexChars
    /\ ret' = Returned(<<>>, <<ErrTooShort>>)
    /\ ps' = "returned"
    /\ UNCHANGED <<decoded, hexString, i, durations, widths, conv>>
    /\ UNCHANGED <<compVars, pipeVars, loadVars, appVars>>

(* lines 37-47 *)
ParseHeader ==
    /\ ps = "entry"
    /\ Len(hexString) >= HeaderHexChars
    /\ i' = HeaderHexChars
    /\ durations' = <<>>
    /\ ps' = "run"
    /\ UNCHANGED <<decoded, hexString, widths, ret, conv>>
    /\ UNCHANGED <<compVars, pipeVars, loadVars, appVars>>

(* lines 50-75, an iteration that appends a value *)
ParseValue ==
    /\ ps = "run"
    /\ i < loopBound(hexString)
    /\ i + 2 <= Len(hexString)
    /\ IF IsEscape(hexString, i)
       THEN /\ i + 6 <= Len(hexString)
            /\ durations' = Append(durations, extendedValue(hexString, i))
            /\ i' = i + 4 + 2
            /\ widths' = Append(widths, 3)
       ELSE /\ durations' = Append(durations, parseHexToInt(Slice(hexString, i, i + 2)))
            /\ i' = i + 2
            /\ widths' = Append(widths, 1)
    /\ UNCHANGED <<decoded, hexString, ps, ret, conv>>
    /\ UNCHANGED <<compVars, pipeVars, loadVars, appVars>>

(* lines 58-61: an escape marker without its two bytes *)
ParseTruncated ==
    /\ ps = "run"
    /\ i < loopBound(hexString)
    /\ i + 2 <= Len(hexString)
    /\ IsEscape(hexString, i)
    /\ i + 6 > Len(hexString)
    /\ ret' = truncatedReturn(durations)
    /\ ps' = "returned"
    /\ UNCHANGED <<decoded, hexString, i, durations, widths, conv>>
    /\ UNCHANGED <<compVars, pipeVars, loadVars, appVars>>

(* lines 50-53 and 77: the loop ends, the durations are returned *)
ParseReturn ==
    /\ ps = "run"
    /\ ~(i < loopBound(hexString)) \/ i + 2 > Len(hexString)
    /\ ret' = Returned(durations, <<>>)
    /\ ps' = "returned"
    /\ UNCHANGED <<decoded, hexString, i, durations, widths, conv>>
    /\ UNCHANGED <<compVars, pipeVars, loadVars, appVars>>

(* ConvertBroadlinkToTuya, part_006:101-104 *)
ConvertFailParse ==
    /\ ps = "returned"
    /\ ~conv.returned
    /\ ret.err # <<>>
    /\ conv' = [returned |-> TRUE, code |-> <<>>, err |-> <<ErrParse>> \o ret.err]
    /\ UNCHANGED <<decoded, hexString, i, durations, widths, ps, ret>>
    /\ UNCHANGED <<compVars, pipeVars, loadVars, appVars>>

(* ConvertBroadlinkToTuya, part_006:106-108 *)
ConvertNoDurations ==
    /\ ps = "returned"
    /\ ~conv.returned
    /\ ret.err = <<>>
    /\ Len(ret.durations) = 0
    /\ conv' = [returned |-> TRUE, code |-> <<>>, err |-> <<ErrNoDurations>>]
    /\ UNCHANGED <<decoded, hexString, i, durations, widths, ps, ret>>
    /\ UNCHANGED <<compVars, pipeVars, loadVars, appVars>>

----------------------------------------------------------------------------
(* Payloads given to the parser *)

Payloads == UNION {[1 .. n -> Symbols] : n \in 0 .. MaxPayload}

(* the Broadlink header: 0x26 0x00, then the length, low byte first *)
Header(length) == <<38, 0, length % 256, length \div 256>>

(* header declaring 4, then 0A 14 00 01 2C *)
ScenarioPayload == Header(4) \o <<10, 20, 0, 1, 44>>

(* header declaring 0x0102 = 258 *)
WideHeaderPayload == <<38, 0, 2, 1, 7, 9>>

DecodedInputs ==
    {Header(n) \o p : n \in 0 .. MaxDeclared, p \in Payloads}
    \cup {SubSeq(Header(1), 1, n) : n \in 0 .. 3}
    \cup {ScenarioPayload, WideHeaderPayload}

CompressIdle ==
    /\ data = <<>>
    /\ pos = 0
    /\ blockStart = 0
    /\ w = NewWriter
    /\ best = NoMatch
    /\ pc = "idle"
    /\ probe = NoProbe
    /\ dH = NewDecoder
    /\ dF = NewDecoder

InitParse ==
    /\ decoded \in DecodedInputs
    /\ hexString = ToHex(decoded)
    /\ i = 0
    /\ durations = <<>>
    /\ widths = <<>>
    /\ ps = "entry"
    /\ ret = NoReturn
    /\ conv = NoResult
    /\ CompressIdle
    /\ PipeIdle
    /\ LoadIdle
    /\ AppIdle

NextParse ==
    \/ ParseTooShort
    \/ ParseHeader
    \/ ParseValue
    \/ ParseTruncated
    \/ ParseReturn
    \/ ConvertFailParse
    \/ ConvertNoDurations

SpecParse == InitParse /\ [][NextParse]_vars

----------------------------------------------------------------------------
(* convertToMicroseconds, tuya_codec.go:86-100 *)

(* BroadlinkUnit = 269.0 / 8192.0, line 15 *)
BroadlinkUnitNum == 269
BroadlinkUnitDen == 8192

(* line 94: the first value that is not kept *)
Uint16Limit == 65535

FractionBits == 22

(* float64(duration) / BroadlinkUnit, line 91: the quotient
   duration * 8192 / 269 as its whole part and its fraction in units of
   2^-FractionBits, rounded to the nearest unit.  float64 rounds to the
   nearest of finer units for every quotient below 2^30, so the whole part
   and whether the fraction is zero are those of the float64 quotient.  The
   dividend is split at multiples of 269 to stay inside 32-bit integers. *)
quotient(duration) ==
    LET a    == duration \div BroadlinkUnitNum
        b    == duration % BroadlinkUnitNum
        rem  == (BroadlinkUnitDen * b) % BroadlinkUnitNum
    IN  [whole |-> BroadlinkUnitDen * a + (BroadlinkUnitDen * b) \div BroadlinkUnitNum,
         frac  |-> (rem * (2 ^ FractionBits) + BroadlinkUnitNum \div 2)
                       \div BroadlinkUnitNum]

(* Variant with a defect: the fraction cut off instead of rounded up *)
CeilTruncating(q) == q.whole

(* math.Ceil, line 91 *)
Ceil(q) == IF q.frac > 0 THEN q.whole + 1 ELSE q.whole

uint16(x) == x % 65536

(* lines 89-97: the loop, in input order *)
RECURSIVE convertToMicroseconds(_)
convertToMicroseconds(ds) ==
    IF ds = <<>> THEN <<>>
    ELSE LET value == Ceil(quotient(Head(ds)))
         IN  (IF value < Uint16Limit THEN <<uint16(value)>> ELSE <<>>)
                 \o convertToMicroseconds(Tail(ds))

----------------------------------------------------------------------------
(* packRawBytes, tuya_codec.go:105-112 *)

(* Variant with a defect: high byte first *)
putUint16BigEndian(value) == <<value \div 256, value % 256>>

(* binary.Write(buf, binary.LittleEndian, value), line 109 *)
putUint16(value) == <<value % 256, value \div 256>>

RECURSIVE packRawBytes(_)
packRawBytes(ms) ==
    IF ms = <<>> THEN <<>>
    ELSE putUint16(Head(ms)) \o packRawBytes(Tail(ms))

----------------------------------------------------------------------------
(* compressTuya, tuya_codec.go:124-154, as one call: the loop of Step and
   the flush of Finish *)

RECURSIVE compressLoop(_, _, _, _)
compressLoop(d, p, start, wr) ==
    IF wr.panic THEN wr
    ELSE IF p < Len(d)
    THEN LET m == findBestMatch(d, p) IN
         IF m.oob THEN [wr EXCEPT !.panic = TRUE]
         ELSE IF m.length >= MinMatch
         THEN LET w1 == emitLiteralBlocks(wr, Slice(d, start, p))
                  w2 == IF w1.panic THEN w1
                        ELSE emitDistanceBlock(w1, m.length, m.distance)
              IN  compressLoop(d, p + m.length, p + m.length, w2)
         ELSE compressLoop(d, p + 1, start, wr)
    ELSE emitLiteralBlocks(wr, Slice(d, start, p))

compressTuya(d) == compressLoop(d, 0, 0, NewWriter)

----------------------------------------------------------------------------
(* Standard base64 (encoding/base64, StdEncoding), called at
   tuya_codec.go:270 and part_006:92.  A string is the sequence of its
   character codes. *)

(* "A".."Z", "a".."z", "0".."9", "+", "/" *)
Base64Alphabet ==
    [k \in 1 .. 64 |-> IF k <= 26 THEN 64 + k
                       ELSE IF k <= 52 THEN 70 + k
                       ELSE IF k <= 62 THEN k - 5
                       ELSE IF k = 63 THEN 43 ELSE 47]

PadChar == 61

Base64Char(v) == Base64Alphabet[v + 1]

(* EncodeToString: 3 bytes to 4 characters, the last group padded *)
RECURSIVE EncodeToString(_)
EncodeToString(b) ==
    IF Len(b) = 0 THEN <<>>
    ELSE IF Len(b) = 1
    THEN << Base64Char(b[1] \div 4), Base64Char((b[1] % 4) * 16),
            PadChar, PadChar >>
    ELSE IF Len(b) = 2
    THEN << Base64Char(b[1] \div 4),
            Base64Char((b[1] % 4) * 16 + b[2] \div 16),
            Base64Char((b[2] % 16) * 4), PadChar >>
    ELSE << Base64Char(b[1] \div 4),
            Base64Char((b[1] % 4) * 16 + b[2] \div 16),
            Base64Char((b[2] % 16) * 4 + b[3] \div 64),
            Base64Char(b[3] % 64) >> \o EncodeToString(SubSeq(b, 4, Len(b)))

(* the 6-bit value of a character, -1 for a character outside the alphabet *)
Base64Value(c) ==
    IF \E k \in 1 .. 64 : Base64Alphabet[k] = c
    THEN (CHOOSE k \in 1 .. 64 : Base64Alphabet[k] = c) - 1
    ELSE -1

Decoded(bytes) == [bytes |-> bytes, err |-> <<>>]
CorruptInput == [bytes |-> <<>>, err |-> <<"illegal base64 data">>]

(* groups of four characters; only the last may end in one or two pads *)
RECURSIVE decodeQuanta(_)
decodeQuanta(t) ==
    IF Len(t) = 0 THEN Decoded(<<>>)
    ELSE IF Len(t) < 4 THEN CorruptInput
    ELSE LET v1 == Base64Value(t[1])
             v2 == Base64Value(t[2])
             v3 == Base64Value(t[3])
             v4 == Base64Value(t[4])
         IN  IF v1 < 0 \/ v2 < 0 THEN CorruptInput
             ELSE IF v3 >= 0 /\ v4 >= 0
             THEN LET rest == decodeQuanta(SubSeq(t, 5, Len(t)))
                  IN  IF rest.err # <<>> THEN CorruptInput
                      ELSE Decoded(<< v1 * 4 + v2 \div 16,
                                      (v2 % 16) * 16 + v3 \div 4,
                                      (v3 % 4) * 64 + v4 >> \o rest.bytes)
             ELSE IF Len(t) = 4 /\ t[3] = PadChar /\ t[4] = PadChar
             THEN Decoded(<< v1 * 4 + v2 \div 16 >>)
             ELSE IF Len(t) = 4 /\ v3 >= 0 /\ t[4] = PadChar
             THEN Decoded(<< v1 * 4 + v2 \div 16, (v2 % 16) * 16 + v3 \div 4 >>)
             ELSE CorruptInput

IsLineBreak(c) == c = 10 \/ c = 13

(* DecodeString: carriage returns and line feeds are skipped *)
DecodeString(t) == decodeQuanta(SelectSeq(t, LAMBDA c : ~IsLineBreak(c)))

(* Variant with a defect: the padding left out *)
encodeTuyaBase64Unpadded(b) == SelectSeq(EncodeToString(b), LAMBDA c : c # PadChar)

(* encodeTuyaBase64, tuya_codec.go:269-271 *)
encodeTuyaBase64(b) == EncodeToString(b)

----------------------------------------------------------------------------
(* strings.TrimSpace, called at part_006:86 *)

WhiteSpace == {9, 10, 11, 12, 13, 32}

RECURSIVE TrimLeft(_)
TrimLeft(t) ==
    IF t # <<>> /\ Head(t) \in WhiteSpace THEN TrimLeft(Tail(t)) ELSE t

RECURSIVE TrimRight(_)
TrimRight(t) ==
    IF t # <<>> /\ t[Len(t)] \in WhiteSpace
    THEN TrimRight(SubSeq(t, 1, Len(t) - 1)) ELSE t

TrimSpace(t) == TrimRight(TrimLeft(t))

----------------------------------------------------------------------------
(* parseBroadlinkDurations, tuya_codec.go:32-78, as one call: the steps of
   ParseTooShort, ParseHeader, ParseValue, ParseTruncated and ParseReturn *)

RECURSIVE parseLoop(_, _, _)
parseLoop(h, k, ds) ==
    IF ~(k < loopBound(h)) \/ k + 2 > Len(h) THEN Returned(ds, <<>>)
    ELSE IF IsEscape(h, k)
    THEN IF k + 6 > Len(h) THEN truncatedReturn(ds)
         ELSE parseLoop(h, k + 4 + 2, Append(ds, extendedValue(h, k)))
    ELSE parseLoop(h, k + 2, Append(ds, parseHexToInt(Slice(h, k, k + 2))))

parseBroadlinkDurations(h) ==
    IF Len(h) < HeaderHexChars THEN Returned(<<>>, <<ErrTooShort>>)
    ELSE parseLoop(h, HeaderHexChars, <<>>)

----------------------------------------------------------------------------
(* ConvertBroadlinkToTuya, part_006:84-126, as one call *)

ErrEmpty == "empty Broadlink code"
ErrBase64 == "invalid base64 encoding"
ErrFiltered == "all durations filtered out (too large for uint16)"

Failed(err) == [returned |-> TRUE, code |-> <<>>, err |-> err]
Succeeded(code) == [returned |-> TRUE, code |-> code, err |-> <<>>]

(* Variant with a defect: an empty list is passed on *)
noneLeftIgnored(ms) == FALSE

(* line 112 *)
noneLeft(ms) == Len(ms) = 0

(* Variant with a defect: only leading white space removed *)
trimLeftOnly(code) == TrimLeft(code)

(* line 86 *)
trim(code) == TrimSpace(code)

NoLocals ==
    [decoded |-> <<>>, hexString |-> <<>>, ret |-> NoReturn,
     microseconds |-> <<>>, rawBytes |-> <<>>, compressed |-> <<>>,
     tuyaCode |-> <<>>, conv |-> NoResult]

(* the locals of the call when it ends, and what it returns (conv); a panic
   inside compressTuya ends the call without a return *)
convertLocals(code) ==
    LET trimmed == trim(code)
        dec     == DecodeString(trimmed)
        hex     == ToHex(dec.bytes)
        parsed  == parseBroadlinkDurations(hex)
        ms      == convertToMicroseconds(parsed.durations)
        raw     == packRawBytes(ms)
        wr      == compressTuya(raw)
        text    == encodeTuyaBase64(wr.out)
        l1      == [NoLocals EXCEPT !.decoded = dec.bytes, !.hexString = hex,
                                    !.ret = parsed]
        l2      == [l1 EXCEPT !.microseconds = ms]
        l3      == [l2 EXCEPT !.rawBytes = raw]
    IN  IF trimmed = <<>>                                     \* lines 87-89
        THEN [NoLocals EXCEPT !.conv = Failed(<<ErrEmpty>>)]
        ELSE IF dec.err # <<>>                                \* lines 92-95
        THEN [NoLocals EXCEPT !.conv = Failed(<<ErrBase64>> \o dec.err)]
        ELSE IF parsed.err # <<>>                             \* lines 101-104
        THEN [l1 EXCEPT !.conv = Failed(<<ErrParse>> \o parsed.err)]
        ELSE IF Len(parsed.durations) = 0                     \* lines 106-108
        THEN [l1 EXCEPT !.conv = Failed(<<ErrNoDurations>>)]
        ELSE IF noneLeft(ms)                                  \* lines 111-114
        THEN [l2 EXCEPT !.conv = Failed(<<ErrFiltered>>)]
        ELSE IF wr.panic                                      \* line 120
        THEN l3
        ELSE [l3 EXCEPT !.compressed = wr.out, !.tuyaCode = text,  \* 123-125
                        !.conv = Succeeded(text)]

ConvertBroadlinkToTuya(code) == convertLocals(code).conv

(* one call ConvertBroadlinkToTuya(broadlinkCode) *)
Convert ==
    /\ us = "call"
    /\ \E l \in {convertLocals(broadlinkCode)} :
          /\ decoded' = l.decoded
          /\ hexString' = l.hexString
          /\ ret' = l.ret
          /\ microseconds' = l.microseconds
          /\ rawBytes' = l.rawBytes
          /\ compressed' = l.compressed
          /\ tuyaCode' = l.tuyaCode
          /\ conv' = l.conv
          /\ us' = IF l.conv.returned THEN "returned" ELSE "panic"
    /\ UNCHANGED <<broadlinkCode, durationsArg, redecoded>>
    /\ UNCHANGED <<i, durations, widths, ps>>
    /\ UNCHANGED <<compVars, loadVars, appVars>>

(* Broadlink codes given to the call *)

(* "Not!Valid@Base64" *)
NotValidText == <<78, 111, 116, 33, 86, 97, 108, 105, 100, 64, 66, 97, 115, 101, 54, 52>>

(* "JgA=": two bytes, 0x26 0x00 *)
ShortText == <<74, 103, 65, 61>>

MalformedTexts ==
    { <<>>, <<32>>, <<32, 9, 10>>, <<13, 10>>,
      NotValidText, ShortText,
      <<74, 103, 65>>,                     \* "JgA", padding missing
      <<74, 103, 32, 65, 61>>,             \* "Jg A=", a space inside
      <<74, 103, 10, 65, 61>>,             \* "Jg\nA=", a line break inside
      <<61, 74, 103, 65>>,                 \* "=JgA"
      <<74, 103, 65, 61, 74, 103, 65, 61>> \* "JgA=JgA="
    }

Margins == { <<>>, <<32>>, <<32, 32>>, <<9>>, <<10>>, <<13, 10>>, <<11, 12>> }

(* a declared length of n and a payload in which every value is an escape
   to 0x9020 = 36896 *)
LongGapPayload(n) == Header(3 * n) \o [k \in 1 .. 3 * n |-> <<0, 144, 32>>[((k - 1) % 3) + 1]]

CorePayloads == DecodedInputs \cup {LongGapPayload(1), LongGapPayload(2)}

CoreTexts == {EncodeToString(d) : d \in CorePayloads} \cup MalformedTexts

PaddedPayloads ==
    {ScenarioPayload, LongGapPayload(1), Header(1) \o <<144>>, <<38, 0>>, <<>>}

PaddedTexts ==
    {(lead \o EncodeToString(d)) \o trail :
        lead \in Margins, trail \in Margins, d \in PaddedPayloads}

CodeTexts == CoreTexts \cup PaddedTexts

InitConvert ==
    /\ broadlinkCode \in CodeTexts
    /\ durationsArg = <<>>
    /\ microseconds = <<>>
    /\ rawBytes = <<>>
    /\ compressed = <<>>
    /\ tuyaCode = <<>>
    /\ redecoded = NoDecode
    /\ us = "call"
    /\ ParseIdle
    /\ CompressIdle
    /\ LoadIdle
    /\ AppIdle

NextConvert == Convert

SpecConvert == InitConvert /\ [][NextConvert]_vars

----------------------------------------------------------------------------
(* The conversion functions called one after the other on a list of raw
   durations *)

MaxDurations == 3

(* 2151 is the largest value kept (65506), 2152 the smallest dropped
   (65536); 600000 is far above; 65535 is the largest the parser yields *)
RawSamples == {0, 1, 269, 2151, 2152, 65535, 600000}

RawLists == UNION {[1 .. n -> RawSamples] : n \in 0 .. MaxDurations}

CallConvertToMicroseconds ==
    /\ us = "call"
    /\ microseconds' = convertToMicroseconds(durationsArg)
    /\ us' = "converted"
    /\ UNCHANGED <<broadlinkCode, durationsArg, rawBytes, compressed, tuyaCode, redecoded>>
    /\ UNCHANGED <<compVars, parseVars, loadVars, appVars>>

CallPackRawBytes ==
    /\ us = "converted"
    /\ rawBytes' = packRawBytes(microseconds)
    /\ us' = "packed"
    /\ UNCHANGED <<broadlinkCode, durationsArg, microseconds, compressed, tuyaCode, redecoded>>
    /\ UNCHANGED <<compVars, parseVars, loadVars, appVars>>

CallCompressTuya ==
    /\ us = "packed"
    /\ \E wr \in {compressTuya(rawBytes)} :
          /\ compressed' = wr.out
          /\ us' = IF wr.panic THEN "panic" ELSE "compressed"
    /\ UNCHANGED <<broadlinkCode, durationsArg, microseconds, rawBytes, tuyaCode, redecoded>>
    /\ UNCHANGED <<compVars, parseVars, loadVars, appVars>>

CallEncodeTuyaBase64 ==
    /\ us = "compressed"
    /\ tuyaCode' = encodeTuyaBase64(compressed)
    /\ us' = "encoded"
    /\ UNCHANGED <<broadlinkCode, durationsArg, microseconds, rawBytes, compressed, redecoded>>
    /\ UNCHANGED <<compVars, parseVars, loadVars, appVars>>

CallDecodeString ==
    /\ us = "encoded"
    /\ redecoded' = DecodeString(tuyaCode)
    /\ us' = "decoded"
    /\ UNCHANGED <<broadlinkCode, durationsArg, microseconds, rawBytes, compressed, tuyaCode>>
    /\ UNCHANGED <<compVars, parseVars, loadVars, appVars>>

InitUnits ==
    /\ durationsArg \in RawLists
    /\ broadlinkCode = <<>>
    /\ microseconds = <<>>
    /\ rawBytes = <<>>
    /\ compressed = <<>>
    /\ tuyaCode = <<>>
    /\ redecoded = NoDecode
    /\ us = "call"
    /\ ParseIdle
    /\ CompressIdle
    /\ LoadIdle
    /\ AppIdle

NextUnits ==
    \/ CallConvertToMicroseconds
    \/ CallPackRawBytes
    \/ CallCompressTuya
    \/ CallEncodeTuyaBase64
    \/ CallDecodeString

SpecUnits == InitUnits /\ [][NextUnits]_vars

----------------------------------------------------------------------------
(* The tables of schema.sql (part_006:1-61).  A table is the sequence of its
   rows in the order of their id; a nullable column holds <<>> for NULL and
   <<v>> for the value v. *)

Null == <<>>
Value(v) == <<v>>

CodeRow(modelID, mode, temperature, fanSpeed, code) ==
    [model_id |-> modelID, mode |-> mode, temperature |-> temperature,
     fan_speed |-> fanSpeed, ir_code |-> code]

(* UNIQUE(model_id, mode, temperature, fan_speed), part_006:33: two rows
   conflict when the four columns are equal; a NULL equals nothing *)
Conflicts(r, q) ==
    /\ r.model_id = q.model_id
    /\ r.mode = q.mode
    /\ r.temperature # Null /\ r.temperature = q.temperature
    /\ r.fan_speed # Null /\ r.fan_speed = q.fan_speed

(* INSERT INTO ir_codes ... ON CONFLICT(model_id, mode, temperature,
   fan_speed) DO UPDATE SET ir_code = excluded.ir_code, part_007:171-176 *)
upsertCode(table, r) ==
    IF \E k \in 1 .. Len(table) : Conflicts(table[k], r)
    THEN [k \in 1 .. Len(table) |->
             IF Conflicts(table[k], r)
             THEN [table[k] EXCEPT !.ir_code = r.ir_code] ELSE table[k]] \o <<>>
    ELSE Append(table, r)

ModelRow(modelID, s) ==
    [model_id |-> modelID, commands_encoding |-> s.CommandsEncoding,
     supported_controller |-> s.SupportedController]

(* INSERT INTO models ... ON CONFLICT(model_id) DO UPDATE SET ...,
   part_007:135-151 *)
upsertModel(table, r) ==
    IF \E k \in 1 .. Len(table) : table[k].model_id = r.model_id
    THEN [k \in 1 .. Len(table) |->
             IF table[k].model_id = r.model_id THEN r ELSE table[k]] \o <<>>
    ELSE Append(table, r)

----------------------------------------------------------------------------
(* The loader, part_007 *)

(* fmt.Sscanf(tempStr, "%d", &temp), line 197: an optional sign and the
   longest run of decimal digits; what follows them is left unread; no digit
   is an error *)
IsDigit(c) == c \in 48 .. 57

RECURSIVE scanDigits(_, _)
scanDigits(t, acc) ==
    IF t # <<>> /\ IsDigit(Head(t))
    THEN scanDigits(Tail(t), 10 * acc + (Head(t) - 48)) ELSE acc

Sscanf(t) ==
    LET signed == t # <<>> /\ Head(t) \in {43, 45}
        digits == IF signed THEN Tail(t) ELSE t
    IN  IF digits = <<>> \/ ~IsDigit(Head(digits))
        THEN [n |-> 0, temp |-> 0]
        ELSE [n |-> 1,
              temp |-> IF signed /\ Head(t) = 45 THEN 0 - scanDigits(digits, 0)
                       ELSE scanDigits(digits, 0)]

(* the orders in which a range loop may visit the entries of a Go map *)
Orders(S) ==
    {o \in [1 .. Cardinality(S) -> S] :
        \A a, b \in 1 .. Cardinality(S) : a # b => o[a] # o[b]}

(* Broadlink codes: two that convert, and "JgA=" that does not *)
CodeA == EncodeToString(ScenarioPayload)
CodeB == EncodeToString(Header(1) \o <<144>>)
CodeBad == ShortText

(* ConvertBroadlinkToTuya(code), lines 232 and 243, for the codes the files
   hold *)
Converted == [code \in {CodeA, CodeB, CodeBad} |-> ConvertBroadlinkToTuya(code)]

(* Variant with a defect: a failed conversion is passed over *)
conversionFailedIgnored(c) == FALSE

(* lines 233 and 244: err != nil *)
conversionFailed(c) == c.err # <<>>

(* lines 240-251: the loop over the mode codes, in the order of iteration *)
RECURSIVE convertModes(_, _)
convertModes(order, done) ==
    IF order = <<>> THEN [entries |-> done, err |-> <<>>]
    ELSE LET e == Head(order)
             c == Converted[e.code]
         IN  IF conversionFailed(c)
             THEN [entries |-> done, err |-> <<"failed to convert code">> \o c.err]
             ELSE convertModes(Tail(order), done \cup {[e EXCEPT !.code = c.code]})

(* lines 230-257, with the two conversions done *)
convertedFile(s, off, m) ==
    IF s.Off # <<>> /\ conversionFailed(off)
    THEN [smartIR |-> s, err |-> <<"failed to convert 'off' command">> \o off.err]
    ELSE IF m.err # <<>>
    THEN [smartIR |-> s, err |-> m.err]
    ELSE [smartIR |-> [s EXCEPT !.Off = off.code,
                                !.Modes = m.entries,
                                !.CommandsEncoding = "Raw",
                                !.SupportedController = "MQTT"],
          err |-> <<>>]

(* convertCommandsIfNeeded, lines 218-258 *)
convertCommandsIfNeeded(s, order) ==
    IF s.CommandsEncoding = "Raw" /\ s.SupportedController = "MQTT"
    THEN [smartIR |-> s, err |-> <<>>]
    ELSE IF s.CommandsEncoding # "Base64"
    THEN [smartIR |-> s, err |-> <<"unsupported commandsEncoding">>]
    ELSE convertedFile(s,
                       IF s.Off # <<>> THEN Converted[s.Off] ELSE Succeeded(<<>>),
                       convertModes(order, {}))

(* a failure of the database at one of its calls *)
NoFault == [op |-> "none", at |-> 0]
ExecFault(j) == [op |-> "exec", at |-> j]

(* lines 192-207: the loop over the mode codes, after j calls of Exec *)
RECURSIVE insertLoop(_, _, _, _, _)
insertLoop(table, modelID, order, j, fault) ==
    IF order = <<>> THEN [ir_codes |-> table, err |-> <<>>]
    ELSE LET e  == Head(order)
             sc == Sscanf(e.tempStr)
         IN  IF sc.n = 0
             THEN [ir_codes |-> table, err |-> <<"invalid temperature">>]
             ELSE IF fault = ExecFault(j + 1)
             THEN [ir_codes |-> table, err |-> <<"failed to insert code">>]
             ELSE insertLoop(
                      upsertCode(table, CodeRow(modelID, e.mode, Value(sc.temp),
                                                Value(e.fanSpeed), e.code)),
                      modelID, Tail(order), j + 1, fault)

(* insertIRCodes, lines 170-210 *)
insertIRCodes(table, modelID, s, order, fault) ==
    IF fault.op = "prepare"
    THEN [ir_codes |-> table, err |-> <<"failed to prepare statement">>]
    ELSE IF s.Off # <<>>
    THEN IF fault = ExecFault(1)
         THEN [ir_codes |-> table, err |-> <<"failed to insert off command">>]
         ELSE insertLoop(upsertCode(table, CodeRow(modelID, "off", Null, Null, s.Off)),
                         modelID, order, 1, fault)
    ELSE insertLoop(table, modelID, order, 0, fault)

(* defer tx.Rollback(), line 108 *)
Rollback(conn, tx) == conn

(* tx.Commit(), line 121 *)
Commit(conn, tx) == tx

(* lines 110-125: the transaction, tx being the tables after insertModel and
   r what insertIRCodes returned *)
transaction(conn, tx, r, fault) ==
    IF fault.op = "insertModel"
    THEN [db |-> Rollback(conn, conn), err |-> <<"failed to insert model">>]
    ELSE IF r.err # <<>>
    THEN [db |-> Rollback(conn, [tx EXCEPT !.ir_codes = r.ir_codes]),
          err |-> <<"failed to insert IR codes">> \o r.err]
    ELSE IF fault.op = "commit"
    THEN [db |-> Rollback(conn, [tx EXCEPT !.ir_codes = r.ir_codes]),
          err |-> <<"failed to commit transaction">>]
    ELSE [db |-> Commit(conn, [tx EXCEPT !.ir_codes = r.ir_codes]), err |-> <<>>]

(* lines 99-125, c being what convertCommandsIfNeeded returned *)
loadConverted(conn, modelID, c, order, fault) ==
    IF c.err # <<>> THEN [db |-> conn, err |-> <<"failed to convert IR codes">> \o c.err]
    ELSE IF fault.op = "begin" THEN [db |-> conn, err |-> <<"failed to begin transaction">>]
    ELSE transaction(
             conn,
             [conn EXCEPT !.models = upsertModel(@, ModelRow(modelID, c.smartIR))],
             insertIRCodes(conn.ir_codes, modelID, c.smartIR,
                           [k \in 1 .. Len(order) |->
                               CHOOSE e \in c.smartIR.Modes :
                                   [e EXCEPT !.code = <<>>] = [order[k] EXCEPT !.code = <<>>]]
                               \o <<>>,
                           fault),
             fault)

(* LoadFromJSON, lines 85-126: the tables after the call and the error
   returned.  order is the order in which the range loops visit the mode
   codes (lines 240-242 and 192-194); both loops are given the same one. *)
LoadFromJSON(conn, modelID, file, order, fault) ==
    IF ~file.readable THEN [db |-> conn, err |-> <<"failed to read file">>]
    ELSE IF ~file.json THEN [db |-> conn, err |-> <<"failed to parse JSON">>]
    ELSE loadConverted(conn, modelID, convertCommandsIfNeeded(file.smartIR, order),
                       order, fault)

(* LookupCode, mocks.go:241-257, and LookupOffCode, mocks.go:261-276: the
   rows the query selects.  QueryRow scans the first row of the result; the
   query gives no order, so it may be any of them. *)
LookupCodeRows(table, modelID, mode, temperature, fanSpeed) ==
    {k \in 1 .. Len(table) :
        /\ table[k].model_id = modelID
        /\ table[k].mode = mode
        /\ table[k].temperature = Value(temperature)
        /\ table[k].fan_speed = Value(fanSpeed)}

LookupOffCodeRows(table, modelID) ==
    {k \in 1 .. Len(table) : table[k].model_id = modelID /\ table[k].mode = "off"}

----------------------------------------------------------------------------
(* SmartIR files given to the loader *)

MaxLoads == 2
MaxEntries == 2

ModelIDs == {"1109", "1116"}

(* temperature keys "16", "16.5", "17" and "auto" *)
Key16 == <<49, 54>>
Key16Half == <<49, 54, 46, 53>>
Key17 == <<49, 55>>
KeyAuto == <<97, 117, 116, 111>>

Entry(tempStr, code) ==
    [mode |-> "cool", fanSpeed |-> "low", tempStr |-> tempStr, code |-> code]

Commands(off, modes) == [Off |-> off, Modes |-> modes]

TwoCodes == Commands(CodeA, {Entry(Key16, CodeA), Entry(Key17, CodeB)})
OneCode == Commands(CodeB, {Entry(Key16, CodeB)})
HalfDegrees == Commands(<<>>, {Entry(Key16, CodeA), Entry(Key16Half, CodeB)})
AutoKey == Commands(CodeA, {Entry(Key16, CodeA), Entry(KeyAuto, CodeB)})
OneBadCode == Commands(CodeA, {Entry(Key16, CodeA), Entry(Key17, CodeBad)})

CommandSets == {TwoCodes, OneCode, HalfDegrees, AutoKey, OneBadCode}

SmartIRFile(encoding, controller, commands) ==
    [readable |-> TRUE, json |-> TRUE,
     smartIR |-> [CommandsEncoding |-> encoding, SupportedController |-> controller,
                  Off |-> commands.Off, Modes |-> commands.Modes]]

UnreadableFile == [SmartIRFile("", "", Commands(<<>>, {})) EXCEPT !.readable = FALSE]
InvalidJSONFile == [SmartIRFile("", "", Commands(<<>>, {})) EXCEPT !.json = FALSE]

Files ==
    {SmartIRFile("Base64", "Broadlink", c) : c \in CommandSets}
    \cup {SmartIRFile("Raw", "MQTT", c) : c \in CommandSets}
    \cup {SmartIRFile("Raw", "Broadlink", TwoCodes), SmartIRFile("Hex", "MQTT", TwoCodes),
          UnreadableFile, InvalidJSONFile}

Faults ==
    {NoFault}
    \cup {[op |-> o, at |-> 0] : o \in {"begin", "insertModel", "prepare", "commit"}}
    \cup {ExecFault(j) : j \in 1 .. 3}

(* one call db.LoadFromJSON(ctx, modelID, filePath) *)
LoadFile ==
    /\ ls = "ready"
    /\ loads < MaxLoads
    /\ ~lookupRet.returned
    /\ \E modelID \in ModelIDs, file \in Files, fault \in Faults :
       \E order \in Orders(file.smartIR.Modes) :
       \E r \in {LoadFromJSON(db, modelID, file, order, fault)} :
          /\ db' = r.db
          /\ loadCall' = [modelID |-> modelID, file |-> file, fault |-> fault]
          /\ loadRet' = [returned |-> TRUE, err |-> r.err]
    /\ loads' = loads + 1
    /\ UNCHANGED <<lookupRet, dirEntries, dirPos, dirRet, ls>>
    /\ UNCHANGED <<compVars, parseVars, pipeVars, appVars>>

(* one call db.LookupCode(ctx, modelID, mode, temperature, fanSpeed) *)
CallLookupCode ==
    /\ ls = "ready"
    /\ ~lookupRet.returned
    /\ \E modelID \in ModelIDs, temperature \in {16, 17} :
       LET rows == LookupCodeRows(db.ir_codes, modelID, "cool", temperature, "low")
           call == [returned |-> TRUE, fn |-> "LookupCode", modelID |-> modelID,
                    mode |-> "cool", temperature |-> Value(temperature),
                    fanSpeed |-> Value("low"), code |-> <<>>, err |-> <<>>]
       IN  IF rows = {}
           THEN lookupRet' = [call EXCEPT !.err = <<"no IR code found">>]
           ELSE \E k \in rows : lookupRet' = [call EXCEPT !.code = db.ir_codes[k].ir_code]
    /\ UNCHANGED <<db, loadCall, loadRet, loads, dirEntries, dirPos, dirRet, ls>>
    /\ UNCHANGED <<compVars, parseVars, pipeVars, appVars>>

(* one call db.LookupOffCode(ctx, modelID) *)
CallLookupOffCode ==
    /\ ls = "ready"
    /\ ~lookupRet.returned
    /\ \E modelID \in ModelIDs :
       LET rows == LookupOffCodeRows(db.ir_codes, modelID)
           call == [returned |-> TRUE, fn |-> "LookupOffCode", modelID |-> modelID,
                    mode |-> "off", temperature |-> Null, fanSpeed |-> Null,
                    code |-> <<>>, err |-> <<>>]
       IN  IF rows = {}
           THEN lookupRet' = [call EXCEPT !.err = <<"no off code found">>]
           ELSE \E k \in rows : lookupRet' = [call EXCEPT !.code = db.ir_codes[k].ir_code]
    /\ UNCHANGED <<db, loadCall, loadRet, loads, dirEntries, dirPos, dirRet, ls>>
    /\ UNCHANGED <<compVars, parseVars, pipeVars, appVars>>

InitLoad ==
    /\ db = EmptyDB
    /\ loadCall = NoCall
    /\ loadRet = NoError
    /\ loads = 0
    /\ lookupRet = NoLookup
    /\ dirEntries = <<>>
    /\ dirPos = 0
    /\ dirRet = NoError
    /\ ls = "ready"
    /\ CompressIdle
    /\ ParseIdle
    /\ PipeIdle
    /\ AppIdle

NextLoad ==
    \/ LoadFile
    \/ CallLookupCode
    \/ CallLookupOffCode

SpecLoad == InitLoad /\ [][NextLoad]_vars

----------------------------------------------------------------------------
(* LoadFromDirectory, part_007:266-300, one action per entry *)

(* the names of a directory in the order os.ReadDir returns them: "1109.json",
   "1109_tuya.json", "1116.json", "notes.txt" and the directory "old" *)
DirNames ==
    << [stem |-> "1109", suffix |-> ".json", isDir |-> FALSE],
       [stem |-> "1109", suffix |-> "_tuya.json", isDir |-> FALSE],
       [stem |-> "1116", suffix |-> ".json", isDir |-> FALSE],
       [stem |-> "notes", suffix |-> ".txt", isDir |-> FALSE],
       [stem |-> "old", suffix |-> "", isDir |-> TRUE] >>

(* filepath.Ext(name), line 279 *)
Ext(name) == IF name.suffix = "_tuya.json" THEN ".json" ELSE name.suffix

IsJSONEntry(entry) == ~entry.name.isDir /\ Ext(entry.name) = ".json"

(* lines 284-291: the name without "_tuya.json" or without ".json" *)
ModelIDOf(name) == name.stem

DirFiles ==
    {SmartIRFile("Base64", "Broadlink", TwoCodes),
     SmartIRFile("Base64", "Broadlink", OneBadCode),
     SmartIRFile("Raw", "MQTT", OneCode),
     InvalidJSONFile}

SortedPicks ==
    {p \in UNION {[1 .. n -> 1 .. Len(DirNames)] : n \in 0 .. MaxEntries} :
        \A a, b \in 1 .. Len(p) : a < b => p[a] < p[b]}

Listings ==
    UNION { { [k \in 1 .. Len(p) |-> [name |-> DirNames[p[k]], file |-> f[k]]] \o <<>> :
                f \in {g \in [1 .. Len(p) -> DirFiles \cup {UnreadableFile}] :
                          \A k \in 1 .. Len(p) :
                              g[k] = UnreadableFile
                                <=> (DirNames[p[k]].isDir \/ Ext(DirNames[p[k]]) # ".json")} } :
            p \in SortedPicks }

(* lines 267-270: os.ReadDir fails *)
DirReadFails ==
    /\ ls = "dirCall"
    /\ dirRet' = [returned |-> TRUE, err |-> <<"failed to read directory">>]
    /\ ls' = "dirReturned"
    /\ UNCHANGED <<db, loadCall, loadRet, loads, lookupRet, dirEntries, dirPos>>
    /\ UNCHANGED <<compVars, parseVars, pipeVars, appVars>>

(* line 267: os.ReadDir returns the entries *)
DirRead ==
    /\ ls = "dirCall"
    /\ dirPos' = 1
    /\ ls' = "dir"
    /\ UNCHANGED <<db, loadCall, loadRet, loads, lookupRet, dirEntries, dirRet>>
    /\ UNCHANGED <<compVars, parseVars, pipeVars, appVars>>

(* lines 273-281: a directory or a name without .json is passed over *)
DirSkipEntry ==
    /\ ls = "dir"
    /\ dirPos <= Len(dirEntries)
    /\ ~IsJSONEntry(dirEntries[dirPos])
    /\ dirPos' = dirPos + 1
    /\ UNCHANGED <<db, loadCall, loadRet, loads, lookupRet, dirEntries, dirRet, ls>>
    /\ UNCHANGED <<compVars, parseVars, pipeVars, appVars>>

(* lines 283-296: the file is loaded; an error ends the call *)
DirLoadEntry ==
    /\ ls = "dir"
    /\ dirPos <= Len(dirEntries)
    /\ IsJSONEntry(dirEntries[dirPos])
    /\ \E fault \in Faults :
       \E order \in Orders(dirEntries[dirPos].file.smartIR.Modes) :
       \E r \in {LoadFromJSON(db, ModelIDOf(dirEntries[dirPos].name),
                              dirEntries[dirPos].file, order, fault)} :
          /\ db' = r.db
          /\ loadCall' = [modelID |-> ModelIDOf(dirEntries[dirPos].name),
                          file |-> dirEntries[dirPos].file, fault |-> fault]
          /\ loadRet' = [returned |-> TRUE, err |-> r.err]
          /\ IF r.err # <<>>
             THEN /\ dirRet' = [returned |-> TRUE, err |-> <<"failed to load">> \o r.err]
                  /\ ls' = "dirReturned"
                  /\ UNCHANGED dirPos
             ELSE /\ dirPos' = dirPos + 1
                  /\ UNCHANGED <<dirRet, ls>>
    /\ loads' = loads + 1
    /\ UNCHANGED <<lookupRet, dirEntries>>
    /\ UNCHANGED <<compVars, parseVars, pipeVars, appVars>>

(* line 299 *)
DirReturn ==
    /\ ls = "dir"
    /\ dirPos > Len(dirEntries)
    /\ dirRet' = [returned |-> TRUE, err |-> <<>>]
    /\ ls' = "dirReturned"
    /\ UNCHANGED <<db, loadCall, loadRet, loads, lookupRet, dirEntries, dirPos>>
    /\ UNCHANGED <<compVars, parseVars, pipeVars, appVars>>

InitDir ==
    /\ db = EmptyDB
    /\ loadCall = NoCall
    /\ loadRet = NoError
    /\ loads = 0
    /\ lookupRet = NoLookup
    /\ dirEntries \in Listings
    /\ dirPos = 0
    /\ dirRet = NoError
    /\ ls = "dirCall"
    /\ CompressIdle
    /\ ParseIdle
    /\ PipeIdle
    /\ AppIdle

NextDir ==
    \/ DirReadFails
    \/ DirRead
    \/ DirSkipEntry
    \/ DirLoadEntry
    \/ DirReturn

SpecDir == InitDir /\ [][NextDir]_vars

----------------------------------------------------------------------------
(* emitDistanceBlock called on its own: every match length of 3 to
   TuyaMaxMatchLength, with distances at the ends of the window and on both
   sides of the multiples of 256 *)

MatchDistances == {1, 2, 255, 256, 257, 258, 4096, 4097, 8191, 8192}

CallEmitDistanceBlock ==
    /\ pc = "emit"
    /\ w' = emitDistanceBlock(w, best.length, best.distance)
    /\ pc' = "emitted"
    /\ UNCHANGED <<data, pos, blockStart, best, probe, dH, dF>>
    /\ UNCHANGED <<parseVars, pipeVars, loadVars, appVars>>

InitEmit ==
    /\ data = <<>>
    /\ pos = 0
    /\ blockStart = 0
    /\ w = NewWriter
    /\ best \in {[length |-> l, distance |-> dist, oob |-> FALSE] :
                    l \in MinMatch .. TuyaMaxMatchLength, dist \in MatchDistances}
    /\ pc = "emit"
    /\ probe = NoProbe
    /\ dH = NewDecoder
    /\ dF = NewDecoder
    /\ ParseIdle
    /\ PipeIdle
    /\ LoadIdle
    /\ AppIdle

NextEmit == CallEmitDistanceBlock

SpecEmit == InitEmit /\ [][NextEmit]_vars

----------------------------------------------------------------------------
(* ACState, tuya_codec.go:662-745 (package state).  Temperatures are float64;
   a comparison with NaN is false. *)

MinTemperature == 160
MaxTemperature == 300

Less(a, b) == ~a.nan /\ ~b.nan /\ a.tenths < b.tenths

ValidModes == {"off", "cool", "heat", "dry", "fan_only", "auto"}
ValidFanModes == {"auto", "low", "medium", "high"}

isValidMode(mode) == mode \in ValidModes
isValidFanMode(fanMode) == fanMode \in ValidFanModes

(* SetTemperature, lines 696-704: the state after the call and the error *)
SetTemperature(s, temp) ==
    IF Less(temp, Float(MinTemperature)) \/ Less(Float(MaxTemperature), temp)
    THEN [state |-> s, err |-> <<"temperature out of range">>]
    ELSE [state |-> [s EXCEPT !.Temperature = temp], err |-> <<>>]

(* SetMode, lines 707-715 *)
SetMode(s, mode) ==
    IF ~isValidMode(mode)
    THEN [state |-> s, err |-> <<"invalid mode">>]
    ELSE [state |-> [s EXCEPT !.Mode = mode, !.Power = (mode # "off")], err |-> <<>>]

(* SetFanMode, lines 718-725 *)
SetFanMode(s, fanMode) ==
    IF ~isValidFanMode(fanMode)
    THEN [state |-> s, err |-> <<"invalid fan mode">>]
    ELSE [state |-> [s EXCEPT !.FanMode = fanMode], err |-> <<>>]

(* arguments: temperatures on both sides of the two limits, and NaN; mode and
   fan mode names, valid and not *)
TemperatureArgs == {Float(t) : t \in {-50, 159, 160, 214, 215, 225, 300, 301}} \cup {NaN}
ModeArgs == ValidModes \cup {"turbo", ""}
FanModeArgs == ValidFanModes \cup {"turbo", ""}

CallSetTemperature ==
    /\ hs = "ready"
    /\ \E temp \in TemperatureArgs :
       \E r \in {SetTemperature(acState, temp)} :
          /\ acState' = r.state
          /\ setRet' = [fn |-> "SetTemperature", err |-> r.err]
    /\ UNCHANGED <<connected, trace, sendRet, payload, schema, schemaRet, schemaCalls, hs>>
    /\ UNCHANGED <<compVars, parseVars, pipeVars, loadVars>>

CallSetMode ==
    /\ hs = "ready"
    /\ \E mode \in ModeArgs :
       \E r \in {SetMode(acState, mode)} :
          /\ acState' = r.state
          /\ setRet' = [fn |-> "SetMode", err |-> r.err]
    /\ UNCHANGED <<connected, trace, sendRet, payload, schema, schemaRet, schemaCalls, hs>>
    /\ UNCHANGED <<compVars, parseVars, pipeVars, loadVars>>

CallSetFanMode ==
    /\ hs = "ready"
    /\ \E fanMode \in FanModeArgs :
       \E r \in {SetFanMode(acState, fanMode)} :
          /\ acState' = r.state
          /\ setRet' = [fn |-> "SetFanMode", err |-> r.err]
    /\ UNCHANGED <<connected, trace, sendRet, payload, schema, schemaRet, schemaCalls, hs>>
    /\ UNCHANGED <<compVars, parseVars, pipeVars, loadVars>>

InitState ==
    /\ acState = NewACState
    /\ setRet = NoSet
    /\ connected = FALSE
    /\ trace = <<>>
    /\ sendRet = NoSend
    /\ payload = NoPayload
    /\ schema = NewDatabase
    /\ schemaRet = NoSet
    /\ schemaCalls = 0
    /\ hs = "ready"
    /\ CompressIdle
    /\ ParseIdle
    /\ PipeIdle
    /\ LoadIdle

NextState ==
    \/ CallSetTemperature
    \/ CallSetMode
    \/ CallSetFanMode

SpecState == InitState /\ [][NextState]_vars

----------------------------------------------------------------------------
(* SendIRCode, ir_sender.go:14-55.  The database and the MQTT client are
   interfaces: what a lookup and a publish return is an input of the call.
   The calls made are recorded in order, each with what it returned. *)

ModelID == "1109"
IRBlasterID == "ir-blaster"

(* Variant with a defect: the fraction is cut off *)
RoundTruncating(tenths) == tenths \div 10

(* math.Round: to the nearest integer, a half away from zero *)
Round(tenths) ==
    IF tenths >= 0 THEN (tenths + 5) \div 10 ELSE -((5 - tenths) \div 10)

(* line 31, int(math.Round(acState.Temperature)): the conversion of NaN to int
   depends on the build; it gives 0 or the most negative int, written here as
   the most negative value of the model's integers *)
IntRound(t) == IF t.nan THEN {0, -2147483647} ELSE {Round(t.tenths)}

(* what LookupCode and LookupOffCode can return: a code, no such code, or a
   database error *)
LookupReturns ==
    {[code |-> "CODE_A", err |-> <<>>],
     [code |-> "CODE_B", err |-> <<>>],
     [code |-> "", err |-> <<"code not found">>],
     [code |-> "", err |-> <<"database error">>]}

(* what Publish can return *)
PublishReturns == {<<>>, <<"publish failed">>}

isConnectedCall(isConnected) == [op |-> "IsConnected", ret |-> isConnected]

(* lines 24-37 *)
lookupCall(s, temp, lookup) ==
    IF s.Mode = "off"
    THEN [op |-> "LookupOffCode", modelID |-> ModelID, ret |-> lookup]
    ELSE [op |-> "LookupCode", modelID |-> ModelID, mode |-> s.Mode,
          temperature |-> temp, fanSpeed |-> s.FanMode, ret |-> lookup]

(* lines 40-50 *)
publishCall(code, published) ==
    [op |-> "Publish", topic |-> "zigbee2mqtt/" \o IRBlasterID \o "/set",
     qos |-> 1, retained |-> FALSE, payload |-> [ir_code_to_send |-> code],
     ret |-> published]

(* Variant with a defect: a failed lookup does not end the call *)
lookupFailedIgnored(lookup) == FALSE

(* lines 26 and 34: err != nil *)
lookupFailed(lookup) == lookup.err # <<>>

(* the calls made and the error returned; json.Marshal of a map of strings
   does not fail *)
SendIRCode(s, isConnected, temp, lookup, published) ==
    IF ~isConnected
    THEN [calls |-> <<isConnectedCall(isConnected)>>,
          err |-> <<"MQTT client not connected">>]
    ELSE IF lookupFailed(lookup)
    THEN [calls |-> <<isConnectedCall(isConnected), lookupCall(s, temp, lookup)>>,
          err |-> <<"failed to lookup code">>]
    ELSE [calls |-> <<isConnectedCall(isConnected), lookupCall(s, temp, lookup),
                      publishCall(lookup.code, published)>>,
          err |-> IF published # <<>> THEN <<"failed to publish IR code">> ELSE <<>>]

CallSendIRCode ==
    /\ hs = "call"
    /\ \E temp \in IntRound(acState.Temperature) :
       \E lookup \in LookupReturns :
       \E published \in PublishReturns :
       \E r \in {SendIRCode(acState, connected, temp, lookup, published)} :
          /\ trace' = r.calls
          /\ sendRet' = [returned |-> TRUE, err |-> r.err]
    /\ hs' = "sent"
    /\ UNCHANGED <<acState, setRet, connected, payload, schema, schemaRet, schemaCalls>>
    /\ UNCHANGED <<compVars, parseVars, pipeVars, loadVars>>

(* the states the setters lead to from NewACState *)
SetStates ==
    {SetFanMode(SetMode(SetTemperature(NewACState, temp).state, mode).state, fanMode).state :
        temp \in TemperatureArgs, mode \in ModeArgs, fanMode \in FanModeArgs}

InitSend ==
    /\ acState \in SetStates
    /\ setRet = NoSet
    /\ connected \in BOOLEAN
    /\ trace = <<>>
    /\ sendRet = NoSend
    /\ payload = NoPayload
    /\ schema = NewDatabase
    /\ schemaRet = NoSet
    /\ schemaCalls = 0
    /\ hs = "call"
    /\ CompressIdle
    /\ ParseIdle
    /\ PipeIdle
    /\ LoadIdle

NextSend == CallSendIRCode

SpecSend == InitSend /\ [][NextSend]_vars

----------------------------------------------------------------------------
(* InitSchema and Migrate, mocks.go:139-188.  The database is its
   user_version and whether the models table exists.  A call is made with the
   statement of it that fails, if any. *)

CurrentSchemaVersion == 1
MaxSchemaCalls == 4

(* the statement that fails: none, PRAGMA user_version (line 193), the query
   of sqlite_master (line 142), the schema script at its first statement or
   after it (line 151; CREATE TABLE models is the first statement,
   part_006:6), PRAGMA user_version = (line 200) *)
SchemaFaults == {"none", "getVersion", "checkTables", "schemaFirst", "schemaLater", "setVersion"}

(* a database file a later version of the program has written *)
LaterDatabase == [version |-> CurrentSchemaVersion + 1, models |-> TRUE]

CurrentDatabase == [version |-> CurrentSchemaVersion, models |-> TRUE]

(* InitSchema, lines 139-158: the database after the call and the error *)
InitSchema(s, fault) ==
    IF fault = "checkTables"
    THEN [schema |-> s, err |-> <<"failed to check existing tables">>]
    ELSE IF s.models
    THEN [schema |-> s, err |-> <<"database already initialized (models table exists)">>]
    ELSE IF fault = "schemaFirst"
    THEN [schema |-> s, err |-> <<"failed to execute schema">>]
    ELSE IF fault = "schemaLater"
    THEN [schema |-> [s EXCEPT !.models = TRUE], err |-> <<"failed to execute schema">>]
    ELSE IF fault = "setVersion"
    THEN [schema |-> [s EXCEPT !.models = TRUE], err |-> <<"failed to set schema version">>]
    ELSE [schema |-> [version |-> CurrentSchemaVersion, models |-> TRUE], err |-> <<>>]

(* Variant with a defect: the schema is created whatever the version *)
isUninitializedAlways(currentVersion) == TRUE

(* line 169: currentVersion == 0 *)
isUninitialized(currentVersion) == currentVersion = 0

(* Migrate, lines 162-188 *)
Migrate(s, fault) ==
    IF fault = "getVersion"
    THEN [schema |-> s, err |-> <<"failed to check schema version">>]
    ELSE IF isUninitialized(s.version)
    THEN InitSchema(s, fault)
    ELSE IF s.version = CurrentSchemaVersion
    THEN [schema |-> s, err |-> <<>>]
    ELSE [schema |-> s, err |-> <<"unknown schema version">>]

CallMigrate ==
    /\ hs = "schema"
    /\ schemaCalls < MaxSchemaCalls
    /\ \E fault \in SchemaFaults :
       \E r \in {Migrate(schema, fault)} :
          /\ schema' = r.schema
          /\ schemaRet' = [fn |-> "Migrate", fault |-> fault, from |-> schema, err |-> r.err]
    /\ schemaCalls' = schemaCalls + 1
    /\ UNCHANGED <<acState, setRet, connected, trace, sendRet, payload, hs>>
    /\ UNCHANGED <<compVars, parseVars, pipeVars, loadVars>>

CallInitSchema ==
    /\ hs = "schema"
    /\ schemaCalls < MaxSchemaCalls
    /\ \E fault \in SchemaFaults \ {"getVersion"} :
       \E r \in {InitSchema(schema, fault)} :
          /\ schema' = r.schema
          /\ schemaRet' = [fn |-> "InitSchema", fault |-> fault, from |-> schema, err |-> r.err]
    /\ schemaCalls' = schemaCalls + 1
    /\ UNCHANGED <<acState, setRet, connected, trace, sendRet, payload, hs>>
    /\ UNCHANGED <<compVars, parseVars, pipeVars, loadVars>>

InitMigrate ==
    /\ acState = NewACState
    /\ setRet = NoSet
    /\ connected = FALSE
    /\ trace = <<>>
    /\ sendRet = NoSend
    /\ payload = NoPayload
    /\ schema \in {NewDatabase, LaterDatabase}
    /\ schemaRet = NoSet
    /\ schemaCalls = 0
    /\ hs = "schema"
    /\ CompressIdle
    /\ ParseIdle
    /\ PipeIdle
    /\ LoadIdle

NextMigrate ==
    \/ CallMigrate
    \/ CallInitSchema

SpecMigrate == InitMigrate /\ [][NextMigrate]_vars

----------------------------------------------------------------------------
(* handleCommand, part_012:228-347.  A payload is a JSON object with any of
   the fields temperature, mode and fan_mode (a field that is absent is
   <<>>), or a text that json.Unmarshal does not accept as a ClimateCommand. *)

DeviceID == "living_room"

JSONCommand(temperature, mode, fanMode) ==
    [kind |-> "json", temperature |-> temperature, mode |-> mode, fan_mode |-> fanMode]

TextCommand(text) == [kind |-> "text", text |-> text]

JSONCommands ==
    {JSONCommand(t, m, f) :
        t \in {<<>>, <<Float(215)>>, <<Float(159)>>},
        m \in {<<>>, <<"cool">>, <<"off">>, <<"turbo">>},
        f \in {<<>>, <<"high">>, <<"turbo">>}}

TextCommands == {TextCommand(text) : text \in {"21.5", "31", "NaN", "cool", "high", "turbo"}}

(* ParseCommand, discovery.go:96-102: json.Unmarshal into a ClimateCommand; a
   text that is not a JSON object is an error *)
ParseCommand(p) ==
    IF p.kind = "json"
    THEN [cmd |-> p, err |-> <<>>]
    ELSE [cmd |-> p, err |-> <<"failed to parse command">>]

(* strconv.ParseFloat(payloadStr, 64), line 240, on the texts that are sent *)
ParseFloat(text) ==
    CASE text = "21.5" -> [val |-> Float(215), err |-> <<>>]
      [] text = "31" -> [val |-> Float(310), err |-> <<>>]
      [] text = "NaN" -> [val |-> NaN, err |-> <<>>]
      [] OTHER -> [val |-> Float(0), err |-> <<"invalid syntax">>]

(* what the broker and the database do during one command: all goes well, or
   one of the calls fails *)
AllWell ==
    [isConnected |-> TRUE, lookup |-> [code |-> "CODE_A", err |-> <<>>],
     irPublished |-> <<>>, statePublished |-> <<>>]

Envs ==
    {AllWell,
     [AllWell EXCEPT !.isConnected = FALSE],
     [AllWell EXCEPT !.lookup = [code |-> "", err |-> <<"code not found">>]],
     [AllWell EXCEPT !.irPublished = <<"publish failed">>],
     [AllWell EXCEPT !.statePublished = <<"publish failed">>]}

(* publishState, lines 206-225: json.Marshal does not accept NaN, and then
   nothing is published *)
publishState(s, published) ==
    IF s.Temperature.nan
    THEN <<>>
    ELSE <<[op |-> "PublishState",
            topic |-> "homeassistant/climate/" \o DeviceID \o "/state",
            qos |-> 0, retained |-> TRUE,
            payload |-> [temperature |-> s.Temperature, mode |-> s.Mode,
                         fan_mode |-> s.FanMode],
            ret |-> published]>>

(* what a run of the handler leaves: the AC state, the calls made, whether
   SendIRCode was called and its error, the setter that rejected *)
Outcome(s, calls, sent, sendErr, rejectedBy, err) ==
    [state |-> s, calls |-> calls, sent |-> sent, sendErr |-> sendErr,
     rejectedBy |-> rejectedBy, err |-> err]

(* lines 241-244, 302-305, 311-314, 320-323: log and return *)
Rejected(s, setter, err) == {Outcome(s, <<>>, FALSE, <<>>, setter, err)}

sent(s, env, r) ==
    Outcome(s, r.calls \o publishState(s, env.statePublished), TRUE, r.err, "", <<>>)

(* lines 257-268, 275-286, 333-344: SendIRCode, then publishState *)
sendAndPublish(s, env) ==
    {sent(s, env, SendIRCode(s, env.isConnected, temp, env.lookup, env.irPublished)) :
        temp \in IntRound(s.Temperature)}

(* lines 240-251: a number is a temperature; the state is published *)
plainTemperature(s, env, t) ==
    IF t.err # <<>>
    THEN Rejected(s, "SetTemperature", t.err)
    ELSE {Outcome(t.state, publishState(t.state, env.statePublished), FALSE, <<>>, "", <<>>)}

(* lines 253-291: otherwise a mode, otherwise a fan mode *)
plainMode(s, env, m, f) ==
    IF m.err = <<>>
    THEN sendAndPublish(m.state, env)
    ELSE IF f.err = <<>>
    THEN sendAndPublish(f.state, env)
    ELSE {Outcome(s, <<>>, FALSE, <<>>, "", <<"could not parse command">>)}

(* lines 234-292 *)
plainText(s, env, text, number) ==
    IF number.err = <<>>
    THEN plainTemperature(s, env, SetTemperature(s, number.val))
    ELSE plainMode(s, env, SetMode(s, text), SetFanMode(s, text))

Unset(s) == [state |-> s, err |-> <<>>]

(* lines 319-344 *)
applyFanMode(s, env, cmd, f) ==
    IF f.err # <<>>
    THEN Rejected(s, "SetFanMode", f.err)
    ELSE IF cmd.temperature = <<>> /\ cmd.mode = <<>> /\ cmd.fan_mode = <<>>
    THEN {Outcome(s, <<>>, FALSE, <<>>, "", <<"no valid state changes">>)}
    ELSE sendAndPublish(f.state, env)

(* lines 310-317 *)
applyMode(s, env, cmd, m) ==
    IF m.err # <<>>
    THEN Rejected(s, "SetMode", m.err)
    ELSE applyFanMode(m.state, env, cmd,
            IF cmd.fan_mode = <<>> THEN Unset(m.state)
            ELSE SetFanMode(m.state, cmd.fan_mode[1]))

(* lines 301-308 *)
applyTemperature(env, cmd, t) ==
    IF t.err # <<>>
    THEN Rejected(t.state, "SetTemperature", t.err)
    ELSE applyMode(t.state, env, cmd,
            IF cmd.mode = <<>> THEN Unset(t.state)
            ELSE SetMode(t.state, cmd.mode[1]))

(* the outcomes of handleCommand(client, db, modelID, irBlasterID, deviceID,
   acState, payload) *)
handleCommand(s, p, env) ==
    IF ParseCommand(p).err # <<>>
    THEN plainText(s, env, p.text, ParseFloat(p.text))
    ELSE applyTemperature(env, p,
            IF p.temperature = <<>> THEN Unset(s)
            ELSE SetTemperature(s, p.temperature[1]))

HandleCommand ==
    /\ hs = "ready"
    /\ \E p \in JSONCommands \cup TextCommands :
       \E env \in Envs :
       \E r \in handleCommand(acState, p, env) :
          /\ acState' = r.state
          /\ payload' = p
          /\ connected' = env.isConnected
          /\ trace' = r.calls
          /\ sendRet' = [returned |-> r.sent, err |-> r.sendErr]
          /\ setRet' = [fn |-> r.rejectedBy, err |-> r.err]
    /\ UNCHANGED <<schema, schemaRet, schemaCalls, hs>>
    /\ UNCHANGED <<compVars, parseVars, pipeVars, loadVars>>

NextApp == HandleCommand

SpecApp == InitState /\ [][NextApp]_vars

----------------------------------------------------------------------------
(* Properties of the compressor, checked under Spec *)

(* what the Byte Packer can produce: 16-bit little-endian values below 65535 *)
PackerOutput(d) ==
    /\ Len(d) % 2 = 0
    /\ \A k \in 1 .. Len(d) \div 2 : d[2 * k - 1] + 256 * d[2 * k] < 65535

Compressed == pc = "done"
DistCalls == {k \in 1 .. Len(w.calls) : w.calls[k].op = "dist"}
LitCalls == {k \in 1 .. Len(w.calls) : w.calls[k].op = "lit"}
(* the calls that wrote their token (a call that panicked wrote nothing) *)
Written == {k \in 1 .. Len(w.calls) : w.calls[k].first < Len(w.out)}
FirstByte(k) == At(w.out, w.calls[k].first)

(* C1: for every Byte Packer output b, compressTuya(b) is returned and the
   decompressor of section 4.5 (a header with the high bit clear is a literal
   block of (low 5 bits)+1 bytes, a header with the high bit set is a match
   token) succeeds on it and returns exactly b. *)
C1_RoundTrip ==
    PackerOutput(data) =>
        /\ pc # "panic"
        /\ (Compressed /\ dH.st # "run") => (dH.st = "ok" /\ dH.out = data)

(* Where compressTuya returns, the decompressor that takes a header whose
   length field (bits 5-7) is zero for a literal block, and any other header
   for a match token, returns the input. *)
RoundTripLengthField ==
    (Compressed /\ dF.st # "run") => (dF.st = "ok" /\ dF.out = data)

C2_CallsInBounds ==
    \A k \in 1 .. Len(w.calls) :
        LET c == w.calls[k] IN
        IF c.op = "dist"
        THEN /\ 2 <= c.length /\ c.length <= 265
             /\ 1 <= c.distance /\ c.distance <= 8192
        ELSE 1 <= c.length /\ c.length <= 32

(* a step that makes an emitDistanceBlock call passes a distance no larger
   than the cursor it was made at *)
C2_DistanceWithinCursor ==
    \A k \in 1 .. Len(w.calls') :
        (k > Len(w.calls) /\ w.calls'[k].op = "dist") => w.calls'[k].distance <= pos

(* C2: every emitDistanceBlock call made by compressTuya has
   2 <= length <= 265 and 1 <= distance <= 8192, its distance is never larger
   than the cursor at the time of the call, and every emitLiteralBlock call
   carries between 1 and 32 bytes. *)
C2_EmitBounds == [](C2_CallsInBounds) /\ [][C2_DistanceWithinCursor]_vars

(* C2 witness: calls at the limits have been made for one input: a match at
   distance 8192 with the cursor beyond the window, a match of 257 bytes, a
   literal block of 32 bytes and one of a single byte *)
C2_Witness ==
    /\ pos > TuyaWindowSize
    /\ \E k \in DistCalls : w.calls[k].distance = TuyaWindowSize
    /\ \E k \in DistCalls : w.calls[k].length = 257
    /\ \E k \in LitCalls : w.calls[k].length = LiteralChunk
    /\ \E k \in LitCalls : w.calls[k].length = 1

(* C3: compressTuya returns, for 300 repetitions of 0x90 0x01, a stream of
   fewer than 20 bytes: one literal block first, then a handful (at most 5)
   of match tokens. *)
C3_RepeatCompressesSmall ==
    data = RepeatInput =>
        /\ pc # "panic"
        /\ Compressed =>
              /\ Len(w.out) < 20
              /\ Len(w.calls) >= 2
              /\ Len(w.calls) <= 6
              /\ w.calls[1].op = "lit"
              /\ \A k \in 2 .. Len(w.calls) : w.calls[k].op = "dist"

(* C4: compressTuya never reaches a panic guard of emitLiteralBlock or
   emitDistanceBlock, and findBestMatch never indexes outside the input. *)
C4_NoPanic ==
    /\ pc # "panic"
    /\ ~w.panic
    /\ ~probe.result.oob

(* C5, as stated: the first byte of every match token has the high bit
   (0x80) set and the header of every literal block has it clear. *)
C5_HighBitClassifies ==
    /\ \A k \in DistCalls \cap Written : FirstByte(k) >= 128
    /\ \A k \in LitCalls \cap Written : FirstByte(k) < 128

(* C5, amended: the first byte of every match token has a non-zero length
   field (bits 5-7) and the header of every literal block has a zero length
   field, so a decompressor that tests the length field classifies every
   token as the kind the compressor wrote. *)
C5_LengthFieldClassifies ==
    /\ \A k \in DistCalls \cap Written :
          /\ Shr(FirstByte(k), 5) \in 1 .. 7
          /\ ~IsLiteralHeader("field", FirstByte(k))
    /\ \A k \in LitCalls \cap Written :
          /\ Shr(FirstByte(k), 5) = 0
          /\ IsLiteralHeader("field", FirstByte(k))

(* C5 witness: a stream holding a literal block and a match token of true
   length 3, whose first byte is below 0x80 *)
C5_Witness ==
    /\ Compressed
    /\ LitCalls # {}
    /\ \E k \in DistCalls : w.calls[k].length = 3 /\ FirstByte(k) < 128

(* the n bytes at p equal the n bytes `distance` earlier *)
MatchesFor(d, p, distance, n) ==
    \A j \in 0 .. n - 1 : At(d, p + j) = At(d, p - distance + j)

(* C6: findBestMatch(data, pos) returns the greatest common-prefix length L
   over the distances 1..min(pos, 8192), capped at min(265, len(data)-pos),
   with the smallest distance that attains L; length 0 when no candidate
   matches one byte. *)
C6_LongestNearest ==
    probe.pos >= 0 =>
        LET p    == probe.pos
            L    == probe.result.length
            D    == probe.result.distance
            cap  == Min2(TuyaMaxMatchLength, Len(data) - p)
            far  == Min2(p, TuyaWindowSize)
        IN  /\ 0 <= L /\ L <= cap
            /\ L > 0 => (D \in 1 .. far /\ MatchesFor(data, p, D, L))
            /\ \A distance \in 1 .. far :
                  L = cap \/ ~MatchesFor(data, p, distance, L + 1)
            /\ L > 0 => \A distance \in 1 .. D - 1 : ~MatchesFor(data, p, distance, L)
            /\ (\A distance \in 1 .. far : At(data, p) # At(data, p - distance)) => L = 0

(* C6 witness: a call where the longest length is attained at more than one
   distance and the nearest was returned *)
C6_Witness ==
    /\ probe.pos >= 0
    /\ probe.result.length > 0
    /\ \E distance \in probe.result.distance + 1 .. Min2(probe.pos, TuyaWindowSize) :
          MatchesFor(data, probe.pos, distance, probe.result.length)

----------------------------------------------------------------------------
(* Properties of the duration parser, checked under SpecParse *)

ParseOk == ret.returned /\ ret.err = <<>>
ParseFailed == ret.returned /\ ret.err # <<>>

RECURSIVE SumSeq(_)
SumSeq(q) == IF q = <<>> THEN 0 ELSE Head(q) + SumSeq(Tail(q))

(* the header's length field and the payload, read from the bytes *)
DeclaredBytes == decoded[3] + 256 * decoded[4]
PresentBytes == Len(decoded) - 4
(* offset in `decoded` of the k-th value read *)
ValueOffset(k) == 4 + SumSeq(SubSeq(widths, 1, k - 1))
CursorByte == i \div 2

(* C7: values are read from right after the 4-byte header, in input order:
   a non-zero byte is a value by itself, a 0x00 byte makes the next two
   bytes, big-endian, the value and moves the cursor three bytes; the header
   declaring 4 followed by 0A 14 00 01 2C yields exactly 0x0A, 0x14, 0x012C. *)
C7_ValuesAsEncoded ==
    /\ ps \in {"run", "returned"} /\ Len(decoded) >= 4 =>
          /\ Len(widths) = Len(durations)
          /\ i = 2 * (4 + SumSeq(widths))
          /\ \A k \in 1 .. Len(durations) :
                LET o == ValueOffset(k) IN
                IF At(decoded, o) # 0
                THEN widths[k] = 1 /\ durations[k] = At(decoded, o)
                ELSE /\ widths[k] = 3
                     /\ durations[k] = 256 * At(decoded, o + 1) + At(decoded, o + 2)
    /\ ParseOk => ret.durations = durations
    /\ (ret.returned /\ decoded = ScenarioPayload) =>
          (ret.err = <<>> /\ ret.durations = <<10, 20, 300>>)

(* C7 witness: the scenario payload has been parsed into its three values *)
C7_Witness ==
    /\ decoded = ScenarioPayload
    /\ ParseOk
    /\ ret.durations = <<10, 20, 300>>
    /\ widths = <<1, 1, 3>>

(* C8, as stated: the declared length counts values: with enough input the
   parser returns exactly as many durations as declared, and fewer only when
   the input is exhausted first. *)
C8_DeclaredCountsValues ==
    ParseOk =>
        \/ Len(ret.durations) = DeclaredBytes
        \/ Len(ret.durations) < DeclaredBytes /\ CursorByte >= Len(decoded)

(* C8, amended: the declared length counts payload bytes: the parser returns
   the values that start within the first `declared` bytes after the header,
   an escaped value counting three bytes and being read whole even when it
   ends beyond them, and it stops earlier only when the input is exhausted. *)
C8_DeclaredCountsBytes ==
    ParseOk =>
        /\ \A k \in 1 .. Len(ret.durations) : ValueOffset(k) - 4 < DeclaredBytes
        /\ \/ SumSeq(widths) >= DeclaredBytes
           \/ CursorByte >= Len(decoded)

(* C8 witness: fewer values than declared were returned although input is
   left: an escaped value used up the declared bytes *)
C8_Witness ==
    /\ ParseOk
    /\ Len(ret.durations) < DeclaredBytes
    /\ CursorByte < Len(decoded)
    /\ \E k \in 1 .. Len(widths) : widths[k] = 3

(* C9, as stated: the parser fails whenever the declared length is
   inconsistent with the bytes present, in particular when the header
   declares more payload than the input holds. *)
C9_DeclaredMoreFails ==
    (ret.returned /\ Len(decoded) >= 4 /\ DeclaredBytes > PresentBytes)
        => ret.err # <<>>

(* the cursor is on an escape marker that starts within the declared length
   and has fewer than two bytes after it *)
EscapeCutShort ==
    /\ Len(decoded) >= 4
    /\ CursorByte - 4 < DeclaredBytes
    /\ CursorByte < Len(decoded)
    /\ At(decoded, CursorByte) = 0
    /\ Len(decoded) - (CursorByte + 1) < 2

(* C9, amended: the parser does not compare the declared length with the
   bytes present: it fails exactly when the payload is shorter than the
   header or an escape marker that starts within the declared length is
   followed by fewer than two bytes; when the header declares more payload
   than the input holds and no escape is cut short, it returns without error
   the values read up to the end of the input. *)
C9_FailsOnlyShortOrCutEscape ==
    ret.returned =>
        /\ ret.err # <<>> <=> (Len(decoded) < 4 \/ EscapeCutShort)
        /\ (Len(decoded) >= 4 /\ DeclaredBytes > PresentBytes /\ ~EscapeCutShort) =>
              /\ ret.err = <<>>
              /\ ret.durations = durations
              /\ CursorByte = Len(decoded)

(* C9 witness: a header declaring more payload than present, parsed without
   error into the values that were present *)
C9_Witness ==
    /\ ParseOk
    /\ DeclaredBytes > PresentBytes
    /\ Len(ret.durations) > 0
    /\ CursorByte = Len(decoded)

(* x is one of the messages of the wrapped error q *)
InRangeOf(q, x) == \E k \in 1 .. Len(q) : q[k] = x

(* C10: the parser returns an error and no durations when the payload is
   shorter than the 4-byte header and when an escape marker inside the
   declared payload is followed by fewer than two bytes; ConvertBroadlinkToTuya
   returns the first case as a "too short" error. *)
C10_ErrorsAndNoDurations ==
    /\ (ret.returned /\ Len(decoded) < 4) =>
          (ret.err = <<ErrTooShort>> /\ ret.durations = <<>>)
    /\ (ret.returned /\ EscapeCutShort) =>
          (ret.err # <<>> /\ ret.durations = <<>>)
    /\ (conv.returned /\ Len(decoded) < 4) =>
          (conv.code = <<>> /\ InRangeOf(conv.err, ErrTooShort))

(* C10 witness: an escape marker was cut short after values had been read *)
C10_Witness ==
    /\ ParseFailed
    /\ EscapeCutShort
    /\ Len(durations) > 0
    /\ ret.durations = <<>>
    /\ conv.returned

----------------------------------------------------------------------------
(* Properties of the conversion functions, checked under SpecUnits *)

(* ceil(raw * 8192 / 269) in integers *)
ExactMicroseconds(raw) ==
    8192 * (raw \div 269) + ((raw % 269) * 8192 + 268) \div 269

KeptInputs(ds) == SelectSeq(ds, LAMBDA raw : ExactMicroseconds(raw) < 65535)

ExpectedMicroseconds(ds) ==
    [k \in 1 .. Len(KeptInputs(ds)) |-> ExactMicroseconds(KeptInputs(ds)[k])] \o <<>>

UnitsConverted == us \in {"converted", "packed", "compressed", "encoded", "decoded"}

\* C11: convertToMicroseconds returns, in input order, exactly
\* ceil(raw * 8192 / 269) for the inputs whose converted value is below 65535
\* and nothing for the others; every output is below 65535; 0 converts to 0.
C11_ConvertedInOrderBelowLimit ==
    UnitsConverted =>
        /\ microseconds = ExpectedMicroseconds(durationsArg)
        /\ \A k \in 1 .. Len(microseconds) : microseconds[k] < 65535
        /\ (durationsArg = <<0>> => microseconds = <<0>>)

C11_Witness ==
    /\ us = "converted"
    /\ durationsArg = <<2151, 2152, 1>>
    /\ microseconds = <<65506, 31>>

UnitsPacked == us \in {"packed", "compressed", "encoded", "decoded", "panic"}
UnitsCompressed == us \in {"compressed", "encoded", "decoded", "panic"}
UnitsEncoded == us \in {"encoded", "decoded"}

\* C13: packRawBytes maps n timing values to exactly 2n bytes; bytes 2i and
\* 2i+1 are the low and the high byte of the i-th value; the length is even
\* and the input order is kept.
C13_PackedLittleEndian ==
    UnitsPacked =>
        /\ Len(rawBytes) = 2 * Len(microseconds)
        /\ Len(rawBytes) % 2 = 0
        /\ \A k \in 0 .. Len(microseconds) - 1 :
              /\ At(rawBytes, 2 * k) \in 0 .. 255
              /\ At(rawBytes, 2 * k + 1) \in 0 .. 255
              /\ At(rawBytes, 2 * k) + 256 * At(rawBytes, 2 * k + 1) = At(microseconds, k)

C13_Witness ==
    /\ us = "packed"
    /\ microseconds = <<65506, 31>>
    /\ rawBytes = <<226, 255, 31, 0>>

\* C14: packRawBytes of an empty list is the empty byte sequence,
\* compressTuya of the empty byte sequence is the empty stream, and
\* encodeTuyaBase64 of the empty stream is the empty string.
C14_EmptyStaysEmpty ==
    /\ (UnitsPacked /\ microseconds = <<>>) => rawBytes = <<>>
    /\ (UnitsCompressed /\ rawBytes = <<>>) => (us # "panic" /\ compressed = <<>>)
    /\ (UnitsEncoded /\ compressed = <<>>) => tuyaCode = <<>>

C14_Witness ==
    /\ us = "encoded"
    /\ durationsArg = <<>>
    /\ microseconds = <<>>
    /\ rawBytes = <<>>
    /\ compressed = <<>>
    /\ tuyaCode = <<>>

\* C15: standard base64 decoding of encodeTuyaBase64(x) returns exactly x,
\* and the encoded text has no line break.
C15_Base64RoundTrip ==
    /\ us = "decoded" => (redecoded.err = <<>> /\ redecoded.bytes = compressed)
    /\ UnitsEncoded => \A k \in 1 .. Len(tuyaCode) : tuyaCode[k] \notin {10, 13}

C15_Witness ==
    /\ us = "decoded"
    /\ Len(compressed) = 7
    /\ Len(tuyaCode) = 12
    /\ redecoded.bytes = compressed

----------------------------------------------------------------------------
(* Properties of ConvertBroadlinkToTuya, checked under SpecConvert *)

AllDropped(ds) == \A k \in 1 .. Len(ds) : ExactMicroseconds(ds[k]) >= 65535

\* C12: ConvertBroadlinkToTuya returns an error and no code when the parsed
\* duration list is non-empty but every converted value is 65535 or more; a
\* code is never returned that was built from zero durations.
C12_AllFilteredFails ==
    us = "returned" =>
        /\ (ret.returned /\ ret.err = <<>> /\ ret.durations # <<>>
               /\ AllDropped(ret.durations))
              => (conv.err # <<>> /\ conv.code = <<>>)
        /\ conv.err = <<>> =>
              (Len(microseconds) > 0 /\ ~AllDropped(ret.durations))

C12_Witness ==
    /\ us = "returned"
    /\ ret.durations = <<36896>>
    /\ microseconds = <<>>
    /\ conv = Failed(<<ErrFiltered>>)

Blank == {9, 10, 11, 12, 13, 32}

NonBlankAt(t) == {k \in 1 .. Len(t) : t[k] \notin Blank}

(* the text between its first and its last character that is not white space *)
CoreOf(t) ==
    IF NonBlankAt(t) = {} THEN <<>>
    ELSE SubSeq(t, CHOOSE k \in NonBlankAt(t) : \A j \in NonBlankAt(t) : k <= j,
                   CHOOSE k \in NonBlankAt(t) : \A j \in NonBlankAt(t) : k >= j)

Base64Chars == {Base64Alphabet[k] : k \in 1 .. 64}

(* a text that no reading of base64 accepts: a character outside the
   alphabet, padding and line breaks; or, line breaks left out, a length
   that is no multiple of four or a pad before the last two characters *)
NotBase64(t) ==
    LET u == SelectSeq(t, LAMBDA c : c \notin {10, 13})
    IN  \/ \E k \in 1 .. Len(u) : u[k] \notin Base64Chars \cup {61}
        \/ Len(u) % 4 # 0
        \/ \E k \in 1 .. Len(u) - 2 : u[k] = 61

ConvertFailed == conv.err # <<>> /\ conv.code = <<>>

\* C16: ConvertBroadlinkToTuya returns an error and an empty result for an
\* input that is empty or only white space, for text that is not valid base64
\* and for a payload of fewer than 4 bytes; white space around a code is
\* ignored: the result is the result for the code without it.
C16_RejectsAndTrims ==
    us = "returned" =>
        /\ CoreOf(broadlinkCode) = <<>> => ConvertFailed
        /\ NotBase64(CoreOf(broadlinkCode)) => ConvertFailed
        /\ Len(decoded) < 4 => ConvertFailed
        /\ conv = ConvertBroadlinkToTuya(CoreOf(broadlinkCode))

C16_Witness ==
    /\ us = "returned"
    /\ broadlinkCode = (<<32, 32>> \o EncodeToString(ScenarioPayload)) \o <<13, 10>>
    /\ decoded = ScenarioPayload
    /\ conv.err = <<>>
    /\ conv.code = EncodeToString(<<5, 49, 1, 98, 2, 177, 35>>)

----------------------------------------------------------------------------
(* Properties of the loader *)

(* a Broadlink file, read and parsed, one of whose codes does not convert *)
HasFailingCode(file) ==
    /\ file.readable
    /\ file.json
    /\ file.smartIR.CommandsEncoding = "Base64"
    /\ \/ file.smartIR.Off # <<>> /\ ConvertBroadlinkToTuya(file.smartIR.Off).err # <<>>
       \/ \E e \in file.smartIR.Modes : ConvertBroadlinkToTuya(e.code).err # <<>>

(* a file LoadFromJSON loads when the database does not fail *)
Loadable(file) ==
    /\ file.readable
    /\ file.json
    /\ \/ file.smartIR.CommandsEncoding = "Base64"
       \/ file.smartIR.CommandsEncoding = "Raw" /\ file.smartIR.SupportedController = "MQTT"
    /\ ~HasFailingCode(file)
    /\ \A e \in file.smartIR.Modes : Sscanf(e.tempStr).n = 1

(* the row of the mode code e of a Broadlink file, as converted *)
ConvertedRow(modelID, e) ==
    CodeRow(modelID, e.mode, Value(Sscanf(e.tempStr).temp), Value(e.fanSpeed),
            ConvertBroadlinkToTuya(e.code).code)

Stored(table, r) == \E k \in 1 .. Len(table) : table[k] = r

(* C17, as stated: when a code of a file does not convert, the other codes of
   the file are stored converted, and the files that follow it in the
   directory are loaded *)
C17_ImportGoesOn ==
    (ls = "dirReturned" /\ loadRet.returned /\ loadCall.fault = NoFault
        /\ HasFailingCode(loadCall.file))
    => /\ \A e \in loadCall.file.smartIR.Modes :
              ConvertBroadlinkToTuya(e.code).err = <<>>
                => Stored(db.ir_codes, ConvertedRow(loadCall.modelID, e))
       /\ \A k \in dirPos + 1 .. Len(dirEntries) :
              (IsJSONEntry(dirEntries[k]) /\ Loadable(dirEntries[k].file))
                => \E m \in 1 .. Len(db.models) :
                      db.models[m].model_id = ModelIDOf(dirEntries[k].name)

(* C17, amended: a call of LoadFromJSON on a file one of whose codes does not
   convert returns an error and leaves both tables as they were, and the
   directory import returns that error at that entry *)
C17_ImportAborts ==
    [][ (loads' = loads + 1 /\ HasFailingCode(loadCall'.file))
          => /\ db' = db
             /\ loadRet'.err # <<>>
             /\ ls' = "dirReturned"
             /\ dirRet'.returned /\ dirRet'.err # <<>>
             /\ dirPos' = dirPos ]_vars

C17_Witness ==
    /\ ls = "dirReturned"
    /\ loads = 1
    /\ HasFailingCode(loadCall.file)
    /\ loadCall.fault = NoFault
    /\ dirPos = 1
    /\ Len(dirEntries) = 2
    /\ IsJSONEntry(dirEntries[2]) /\ Loadable(dirEntries[2].file)
    /\ db = EmptyDB
    /\ dirRet.err # <<>>

(* the code LoadFromJSON is to store for the code text of a file: the
   conversion of a Broadlink code, a Tuya code as it is *)
CodeToStore(file, code) ==
    IF file.smartIR.CommandsEncoding = "Base64"
    THEN ConvertBroadlinkToTuya(code).code ELSE code

ModelStored(d, call) ==
    \E m \in 1 .. Len(d.models) : d.models[m].model_id = call.modelID

(* every code of the file is the ir_code of a row of its model, mode and fan
   speed *)
CodesStored(d, call) ==
    /\ call.file.smartIR.Off # <<>>
         => \E k \in 1 .. Len(d.ir_codes) :
               /\ d.ir_codes[k].model_id = call.modelID
               /\ d.ir_codes[k].mode = "off"
               /\ d.ir_codes[k].ir_code = CodeToStore(call.file, call.file.smartIR.Off)
    /\ \A e \in call.file.smartIR.Modes :
           \E k \in 1 .. Len(d.ir_codes) :
               /\ d.ir_codes[k].model_id = call.modelID
               /\ d.ir_codes[k].mode = e.mode
               /\ d.ir_codes[k].fan_speed = Value(e.fanSpeed)
               /\ d.ir_codes[k].ir_code = CodeToStore(call.file, e.code)

(* C18: a call of LoadFromJSON that returns an error leaves models and
   ir_codes as they were; a call that returns nil has stored the model row
   and every code of the file *)
C18_AllOrNothing ==
    [][ loads' = loads + 1
          => IF loadRet'.err # <<>>
             THEN db' = db
             ELSE ModelStored(db', loadCall') /\ CodesStored(db', loadCall') ]_vars

SameCombination(r, q) ==
    /\ r.model_id = q.model_id
    /\ r.mode = q.mode
    /\ r.temperature = q.temperature
    /\ r.fan_speed = q.fan_speed

(* the codes a file holds for the state a lookup asked for, as the loader is
   to store them *)
CodesFor(file, look) ==
    IF look.mode = "off"
    THEN {CodeToStore(file, file.smartIR.Off)}
    ELSE {CodeToStore(file, e.code) :
             e \in {f \in file.smartIR.Modes :
                       /\ f.mode = look.mode
                       /\ Value(f.fanSpeed) = look.fanSpeed
                       /\ Value(Sscanf(f.tempStr).temp) = look.temperature}}

(* C19: after any number of loads ir_codes holds one row for each (model,
   mode, temperature, fan_speed), the "off" row with its two NULLs included,
   and a lookup for the model loaded last returns a code of that load *)
C19_ReloadUpdates ==
    /\ \A j, k \in 1 .. Len(db.ir_codes) :
           j < k => ~SameCombination(db.ir_codes[j], db.ir_codes[k])
    /\ (lookupRet.returned /\ lookupRet.err = <<>> /\ loadRet.err = <<>>
           /\ lookupRet.modelID = loadCall.modelID)
         => lookupRet.code \in CodesFor(loadCall.file, lookupRet)

(* the temperature keys of the file are integers, each once *)
WellKeyed(file) ==
    \A e, f \in file.smartIR.Modes :
        /\ Sscanf(e.tempStr).n = 1
        /\ e.tempStr = <<>> \/ \A k \in 1 .. Len(e.tempStr) : IsDigit(e.tempStr[k])
        /\ (e.mode = f.mode /\ e.fanSpeed = f.fanSpeed
              /\ Sscanf(e.tempStr).temp = Sscanf(f.tempStr).temp) => e = f

MetadataStored(d, call, encoding, controller) ==
    \E m \in 1 .. Len(d.models) :
        /\ d.models[m].model_id = call.modelID
        /\ d.models[m].commands_encoding = encoding
        /\ d.models[m].supported_controller = controller

(* C20: with the file read and parsed, its keys well formed and the database
   not failing, a "Raw" file is loaded without error and its codes are stored
   as they are; a "Base64" file whose codes all convert is stored with every
   code converted and its metadata "Raw" and "MQTT"; any other encoding is an
   error *)
C20_ChoosesByEncoding ==
    (loadRet.returned /\ loadCall.file.readable /\ loadCall.file.json
        /\ loadCall.fault = NoFault /\ WellKeyed(loadCall.file))
    => IF loadCall.file.smartIR.CommandsEncoding = "Raw"
       THEN loadRet.err = <<>> /\ CodesStored(db, loadCall)
       ELSE IF loadCall.file.smartIR.CommandsEncoding = "Base64"
       THEN ~HasFailingCode(loadCall.file)
              => /\ loadRet.err = <<>>
                 /\ CodesStored(db, loadCall)
                 /\ MetadataStored(db, loadCall, "Raw", "MQTT")
       ELSE loadRet.err # <<>>

----------------------------------------------------------------------------
(* Properties of the loop of compressTuya *)

(* an iteration of the loop that ended without a panic *)
Iterated == pc = "loop" /\ pos < Len(data) /\ pc' = "loop"

(* C25: an iteration whose search reports at least 3 bytes emits a match
   token for that match as its last token and moves the cursor by the match
   length; any other iteration writes nothing, keeps the pending run and moves
   the cursor by one byte *)
C25_MatchOrOneByte ==
    [][ Iterated =>
          /\ best' = findBestMatch(data, pos)
          /\ IF best'.length >= 3
             THEN /\ pos' = pos + best'.length
                  /\ blockStart' = pos'
                  /\ Len(w'.calls) > Len(w.calls)
                  /\ w'.calls[Len(w'.calls)]
                       = [op |-> "dist", length |-> best'.length,
                          distance |-> best'.distance,
                          first |-> w'.calls[Len(w'.calls)].first]
                  /\ \A k \in Len(w.calls) + 1 .. Len(w'.calls) - 1 :
                         w'.calls[k].op = "lit"
             ELSE /\ pos' = pos + 1
                  /\ w' = w
                  /\ blockStart' = blockStart ]_vars

C25_Witness ==
    /\ pc = "done"
    /\ \E k \in 1 .. Len(w.calls) : w.calls[k].op = "dist" /\ w.calls[k].length = 3
    /\ blockStart < Len(data)
    /\ blockStart > 0

(* the number of literal blocks for n pending bytes *)
BlocksFor(n) == (n + LiteralChunk - 1) \div LiteralChunk

(* C26: the writer changes only by the flush of the pending run
   data[blockStart:pos] followed by a match token, or by that flush at the
   end of input; the flush writes the pending bytes in order as blocks of 32
   bytes and one shorter last block when bytes remain, each block the byte
   length-1 and then its bytes, and none of them empty *)
C26_LiteralFlush ==
    [][ (w' # w /\ ~w'.panic) =>
          LET n     == pos - blockStart
              base  == Len(w.calls)
              added == Len(w'.calls) - base
          IN  /\ \/ /\ added = BlocksFor(n) + 1
                    /\ w'.calls[base + added].op = "dist"
                    /\ pos' > pos
                 \/ /\ added = BlocksFor(n)
                    /\ pos >= Len(data)
                    /\ pc' = "done"
              /\ \A j \in 1 .. BlocksFor(n) :
                    LET c     == w'.calls[base + j]
                        start == blockStart + LiteralChunk * (j - 1)
                    IN  /\ c.op = "lit"
                        /\ c.length = IF j < BlocksFor(n) THEN LiteralChunk
                                      ELSE n - LiteralChunk * (j - 1)
                        /\ c.length >= 1
                        /\ At(w'.out, c.first) = c.length - 1
                        /\ Slice(w'.out, c.first + 1, c.first + 1 + c.length)
                             = Slice(data, start, start + c.length) ]_vars

C26_Witness ==
    /\ ~w.panic
    /\ \E k \in 1 .. Len(w.calls) - 2 :
          /\ w.calls[k].op = "lit" /\ w.calls[k].length = LiteralChunk
          /\ w.calls[k + 1].op = "lit" /\ w.calls[k + 1].length < LiteralChunk
          /\ w.calls[k + 2].op = "dist"

----------------------------------------------------------------------------
(* Properties of emitDistanceBlock, checked under SpecEmit *)

(* C27: for the true length L and the true distance D, with e = L-2 and
   d = D-1, the token is the two bytes 32e + d div 256, d mod 256 when e < 7
   and the three bytes 224 + d div 256, d mod 256, e - 7 when e >= 7, every
   one of them a byte value *)
C27_TokenBytes ==
    pc = "emitted" =>
       LET e == best.length - 2
           d == best.distance - 1
           token == IF e < 7 THEN <<32 * e + d \div 256, d % 256>>
                    ELSE <<224 + d \div 256, d % 256, e - 7>>
       IN  /\ ~w.panic
           /\ w.out = token
           /\ \A k \in 1 .. Len(token) : token[k] \in 0 .. 255

----------------------------------------------------------------------------
(* The loop invariant of compressTuya, checked under Spec *)

(* the input bytes the emit calls lo .. hi cover together *)
RECURSIVE SpanLength(_, _)
SpanLength(lo, hi) ==
    IF lo > hi THEN 0
    ELSE IF lo = hi THEN w.calls[lo].length
    ELSE LET mid == (lo + hi) \div 2
         IN  SpanLength(lo, mid) + SpanLength(mid + 1, hi)

(* the call k describes the input from offset s on: a literal block holds
   the bytes of its span, a match repeats the bytes `distance` earlier *)
Describes(k, s) ==
    LET c == w.calls[k] IN
    /\ s + c.length <= Len(data)
    /\ IF c.op = "lit"
       THEN Slice(w.out, c.first + 1, c.first + 1 + c.length)
              = Slice(data, s, s + c.length)
       ELSE /\ c.distance >= 1
            /\ c.distance <= s
            /\ \A j \in 0 .. c.length - 1 :
                   At(data, s + j) = At(data, s + j - c.distance)

(* C28: at the top of every iteration blockStart <= pos <= len(data) and the
   tokens written describe data[0:blockStart], each its own span in order; on
   return they describe the whole input *)
C28_LoopInvariant ==
    (pc \in {"loop", "done"}) =>
       /\ 0 <= blockStart /\ blockStart <= pos /\ pos <= Len(data)
       /\ SpanLength(1, Len(w.calls)) = IF pc = "done" THEN Len(data) ELSE blockStart
       /\ \A k \in 1 .. Len(w.calls) : Describes(k, SpanLength(1, k - 1))

C28_Witness ==
    /\ pc = "done"
    /\ Len(data) > 0
    /\ \E k \in 1 .. Len(w.calls) :
          w.calls[k].op = "dist" /\ w.calls[k].distance < w.calls[k].length
    /\ w.calls[Len(w.calls)].op = "lit"

----------------------------------------------------------------------------
(* Properties of ACState, checked under SpecState *)

(* C21: after any calls of the three setters Power is true exactly when Mode
   is not "off", Temperature is a number from 16 to 30, and Mode and FanMode
   are among the valid names *)
C21_StateValid ==
    /\ acState.Power = (acState.Mode # "off")
    /\ ~acState.Temperature.nan
    /\ acState.Temperature.tenths >= 160 /\ acState.Temperature.tenths <= 300
    /\ acState.Mode \in {"off", "cool", "heat", "dry", "fan_only", "auto"}
    /\ acState.FanMode \in {"auto", "low", "medium", "high"}

----------------------------------------------------------------------------
(* Properties of SendIRCode, checked under SpecSend *)

CallsOf(calls, ops) == {n \in 1..Len(calls) : calls[n].op \in ops}

Lookups == {"LookupCode", "LookupOffCode"}

(* C22: SendIRCode checks the connection, then looks the code up, then
   publishes, and stops at the first failure: not connected, it makes no lookup
   and no publish; the lookup failing, it makes no publish; both times it
   returns an error *)
C22_StopsAtFirstFailure ==
    [][CallSendIRCode =>
        /\ sendRet'.returned
        /\ trace'[1].op = "IsConnected"
        /\ \A n \in CallsOf(trace', Lookups) : n = 2
        /\ \A n \in CallsOf(trace', {"Publish"}) :
              n = 3 /\ CallsOf(trace', Lookups) = {2}
        /\ ~connected =>
              /\ Len(trace') = 1
              /\ sendRet'.err # <<>>
        /\ \A n \in CallsOf(trace', Lookups) :
              trace'[n].ret.err # <<>> =>
                 /\ CallsOf(trace', {"Publish"}) = {}
                 /\ sendRet'.err # <<>>]_vars

(* a call that met a failed lookup *)
C22_Witness ==
    /\ sendRet.returned
    /\ sendRet.err # <<>>
    /\ Len(trace) = 2
    /\ trace[2].op = "LookupCode"
    /\ trace[2].ret.err = <<"code not found">>

(* C23: a successful SendIRCode makes one lookup and one publish: LookupOffCode
   when Mode is "off", otherwise LookupCode with the model, the mode, the fan
   mode and the temperature rounded to the nearest integer, a half going up;
   the code returned is published as ir_code_to_send to
   zigbee2mqtt/<irBlasterID>/set with QoS 1, not retained *)
C23_OneLookupOnePublish ==
    [][(CallSendIRCode /\ sendRet'.err = <<>>) =>
        /\ Cardinality(CallsOf(trace', Lookups)) = 1
        /\ Cardinality(CallsOf(trace', {"Publish"})) = 1
        /\ \A n \in CallsOf(trace', Lookups) :
              /\ trace'[n].modelID = "1109"
              /\ IF acState.Mode = "off"
                 THEN trace'[n].op = "LookupOffCode"
                 ELSE /\ trace'[n].op = "LookupCode"
                      /\ trace'[n].mode = acState.Mode
                      /\ trace'[n].fanSpeed = acState.FanMode
                      /\ ~acState.Temperature.nan =>
                            /\ 10 * trace'[n].temperature - 5 <= acState.Temperature.tenths
                            /\ acState.Temperature.tenths < 10 * trace'[n].temperature + 5
              /\ \A q \in CallsOf(trace', {"Publish"}) :
                    /\ trace'[q].payload = [ir_code_to_send |-> trace'[n].ret.code]
                    /\ trace'[q].topic = "zigbee2mqtt/ir-blaster/set"
                    /\ trace'[q].qos = 1
                    /\ trace'[q].retained = FALSE]_vars

(* 21.5 degrees looked up as 22 and the code published *)
C23_Witness ==
    /\ sendRet.returned
    /\ sendRet.err = <<>>
    /\ acState.Temperature = Float(215)
    /\ acState.Mode = "cool"
    /\ Len(trace) = 3
    /\ trace[2].op = "LookupCode"
    /\ trace[2].temperature = 22
    /\ trace[3].payload = [ir_code_to_send |-> "CODE_A"]

----------------------------------------------------------------------------
(* Properties of Migrate and InitSchema, checked under SpecMigrate *)

(* C24: a Migrate call in which no statement fails brings a database with
   version 0 and no tables to CurrentSchemaVersion and leaves a database at
   CurrentSchemaVersion as it is, returning nil both times, so consecutive
   Migrate calls succeed and the version stays; InitSchema returns an error
   once the models table exists *)
C24_MigrateIdempotent ==
    /\ (schemaRet.fn = "Migrate" /\ schemaRet.fault = "none"
          /\ schemaRet.from \in {[version |-> 0, models |-> FALSE],
                                 [version |-> 1, models |-> TRUE]}) =>
          /\ schemaRet.err = <<>>
          /\ schema = [version |-> 1, models |-> TRUE]
    /\ (schemaRet.fn = "InitSchema" /\ schemaRet.from.models) =>
          /\ schemaRet.err # <<>>
          /\ schema = schemaRet.from

(* a Migrate call that found the database current, after an earlier call *)
C24_Witness ==
    /\ schemaCalls >= 2
    /\ schemaRet.fn = "Migrate"
    /\ schemaRet.fault = "none"
    /\ schemaRet.from = [version |-> 1, models |-> TRUE]
    /\ schemaRet.err = <<>>
    /\ schema.version = 1

----------------------------------------------------------------------------
(* Properties of handleCommand, checked under SpecApp, every step of which is
   one run of the handler *)

(* C29: a JSON command that handleCommand rejects for an invalid field leaves
   the AC state as it was before the command, sends no IR code and publishes
   no state *)
C29_RejectedChangesNothing ==
    [][(payload'.kind = "json" /\ setRet'.fn # "") =>
        /\ acState' = acState
        /\ ~sendRet'.returned
        /\ trace' = <<>>]_vars

(* C30: a command that handleCommand accepts and that changes the AC state,
   JSON or plain text, leads to one SendIRCode attempt for the new state, made
   before the new state is published *)
C30_SendsThenPublishes ==
    [][(setRet'.err = <<>> /\ acState' # acState) =>
        /\ sendRet'.returned
        /\ CallsOf(trace', {"IsConnected"}) = {1}
        /\ \A n \in CallsOf(trace', Lookups) :
              /\ n = 2
              /\ acState'.Mode = "off" <=> trace'[n].op = "LookupOffCode"
              /\ trace'[n].op = "LookupCode" =>
                    /\ trace'[n].mode = acState'.Mode
                    /\ trace'[n].fanSpeed = acState'.FanMode
                    /\ trace'[n].temperature \in IntRound(acState'.Temperature)
        /\ \A n \in CallsOf(trace', {"PublishState"}) : n = Len(trace') /\ n > 1]_vars

====
